---- MODULE Spec2Model ----
(***************************************************************************)
(* A model of deepcube, an optimal Rubik's cube solver: the square-index   *)
(* move engine, the sub-state encoders, the pattern-database fill and the  *)
(* iterative-deepening A* search.                                          *)
(***************************************************************************)
EXTENDS Integers, Sequences, FiniteSets, TLC

\* mode           what the program is doing: turning one move, walking away
\*                from the solved cube, scrambling, solving, filling a table
\* start_cube     the cube the run starts from
\* current_cube   the cube after the moves done
\* moves_done     the moves applied to start_cube so far, as indices in all_moves
\* start_square   a square index of the cube, and
\* current_square the index it was sent to by the moves done
\* outcome        what the solver returned
\* pdb            the pattern database being filled (TableHeuristic::new)
VARIABLES mode, start_cube, current_cube, moves_done, start_square, current_square,
          outcome, pdb

vars == <<mode, start_cube, current_cube, moves_done, start_square, current_square,
          outcome, pdb>>

(***************************************************************************)
(* Bounds of the model.                                                    *)
(***************************************************************************)
\* number of times the same move is repeated in the move specification
MaxTurns == 4
\* number of twists applied in the walk specification
MaxTwists == 4
\* number of scramble moves applied before the solver is called
MaxScramble == 2
MaxElements == 4
\* the number of threads that run the searches of the parallel solver
NbThreads == 2
\* the number of workers of the parallel fill
NbWorkers == 2
\* the last depth of the parallel fill
LastDepth == 2
\* the largest target depth of a round of the solvers run round by round
LastLimit == 3
\* the number of twists applied to the cube of blocks
MaxBlockTwists == 2
\* the number of calls of set on one OptionU8
MaxSets == 3
\* the number of moves made before a cube is encoded
MaxCoded == 2
\* the largest orientation index of the sampled indexes that are decoded
MaxOrientationIndex == 4
\* last depth iteration of the pattern database fill that the model runs
FillDepth == 1

(***************************************************************************)
(* Sizes and colours.                                                      *)
(***************************************************************************)
NB_SQUARES_SIDE == 3
NB_SQUARES_FACE == NB_SQUARES_SIDE * NB_SQUARES_SIDE
NB_FACES == 6
NB_SQUARES_CUBE == NB_FACES * NB_SQUARES_FACE
Squares == 0 .. (NB_SQUARES_CUBE - 1)

Orange == 0
Green == 1
Red == 2
Blue == 3
White == 4
Yellow == 5
Invalid == 6
\* Color::ALL, in [Left, Front, Right, Back, Up, Down] order
Color_ALL == <<Orange, Green, Red, Blue, White, Yellow>>

(***************************************************************************)
(* Coordinates: 1D index, 2D (face, x, y), 3D (position + facing axis).    *)
(***************************************************************************)
Left == 0
Front == 1
Right == 2
Back == 3
Up == 4
Down == 5

Coordinate2D_to_1D(c) == c.face * NB_SQUARES_FACE + c.x * NB_SQUARES_SIDE + c.y

Coordinate1D_to_2D(x) ==
    [face |-> x \div NB_SQUARES_FACE,
     x |-> (x % NB_SQUARES_FACE) \div NB_SQUARES_SIDE,
     y |-> x % NB_SQUARES_SIDE]

Coordinate3D_new(rl, du, fb, ax) ==
    [right_left |-> rl, down_up |-> du, front_back |-> fb, axis |-> ax]

Coordinate2D_to_3D(c) ==
    CASE c.face = Right -> Coordinate3D_new(0, c.y, (NB_SQUARES_SIDE - 1) - c.x, "RightLeft")
      [] c.face = Left  -> Coordinate3D_new(2, c.y, c.x, "RightLeft")
      [] c.face = Front -> Coordinate3D_new(c.x, c.y, 0, "FrontBack")
      [] c.face = Back  -> Coordinate3D_new((NB_SQUARES_SIDE - 1) - c.x, c.y, 2, "FrontBack")
      [] c.face = Down  -> Coordinate3D_new(c.x, 0, c.y, "DownUp")
      [] c.face = Up    -> Coordinate3D_new(c.x, 2, (NB_SQUARES_SIDE - 1) - c.y, "DownUp")

Coordinate1D_to_3D(x) == Coordinate2D_to_3D(Coordinate1D_to_2D(x))

\* the panic of the last arm is the face -1
Coordinate3D_to_2D(c) ==
    CASE c.axis = "RightLeft" /\ c.right_left = 0 ->
            [face |-> Right, x |-> (NB_SQUARES_SIDE - 1) - c.front_back, y |-> c.down_up]
      [] c.axis = "RightLeft" /\ c.right_left = 2 ->
            [face |-> Left, x |-> c.front_back, y |-> c.down_up]
      [] c.axis = "FrontBack" /\ c.front_back = 0 ->
            [face |-> Front, x |-> c.right_left, y |-> c.down_up]
      [] c.axis = "FrontBack" /\ c.front_back = 2 ->
            [face |-> Back, x |-> (NB_SQUARES_SIDE - 1) - c.right_left, y |-> c.down_up]
      [] c.axis = "DownUp" /\ c.down_up = 0 ->
            [face |-> Down, x |-> c.right_left, y |-> c.front_back]
      [] c.axis = "DownUp" /\ c.down_up = 2 ->
            [face |-> Up, x |-> c.right_left, y |-> (NB_SQUARES_SIDE - 1) - c.front_back]
      [] OTHER -> [face |-> -1, x |-> 0, y |-> 0]

\* a panicking conversion has no index: it is the index -1
Coordinate3D_to_1D(c) ==
    LET c2 == Coordinate3D_to_2D(c)
    IN  IF c2.face = -1 THEN -1 ELSE Coordinate2D_to_1D(c2)

rotate_right_left(c) ==
    Coordinate3D_new(c.right_left,
                     (NB_SQUARES_SIDE - 1) - c.front_back,
                     c.down_up,
                     CASE c.axis = "RightLeft" -> "RightLeft"
                       [] c.axis = "DownUp" -> "FrontBack"
                       [] c.axis = "FrontBack" -> "DownUp")

rotate_down_up(c) ==
    Coordinate3D_new(c.front_back,
                     c.down_up,
                     (NB_SQUARES_SIDE - 1) - c.right_left,
                     CASE c.axis = "RightLeft" -> "FrontBack"
                       [] c.axis = "DownUp" -> "DownUp"
                       [] c.axis = "FrontBack" -> "RightLeft")

rotate_front_back(c) ==
    Coordinate3D_new(c.down_up,
                     (NB_SQUARES_SIDE - 1) - c.right_left,
                     c.front_back,
                     CASE c.axis = "RightLeft" -> "DownUp"
                       [] c.axis = "DownUp" -> "RightLeft"
                       [] c.axis = "FrontBack" -> "FrontBack")

Coordinate3D_rotate(c, axis) ==
    CASE axis = "RightLeft" -> rotate_right_left(c)
      [] axis = "DownUp" -> rotate_down_up(c)
      [] axis = "FrontBack" -> rotate_front_back(c)

\* the Side layer taken for the Back layer
should_move_side_as_back(c, kind) ==
    CASE kind = "Front" -> c.front_back = 0
      [] kind \in {"Side", "Back"} -> c.front_back = 2
      [] kind = "Right" -> c.right_left = 0
      [] kind = "Middle" -> c.right_left = 1
      [] kind = "Left" -> c.right_left = 2
      [] kind = "Down" -> c.down_up = 0
      [] kind = "Equator" -> c.down_up = 1
      [] kind = "Up" -> c.down_up = 2

should_move(c, kind) ==
    CASE kind = "Front" -> c.front_back = 0
      [] kind = "Side" -> c.front_back = 1
      [] kind = "Back" -> c.front_back = 2
      [] kind = "Right" -> c.right_left = 0
      [] kind = "Middle" -> c.right_left = 1
      [] kind = "Left" -> c.right_left = 2
      [] kind = "Down" -> c.down_up = 0
      [] kind = "Equator" -> c.down_up = 1
      [] kind = "Up" -> c.down_up = 2

(***************************************************************************)
(* Move descriptions.                                                      *)
(***************************************************************************)
MoveKind == <<"Front", "Back", "Right", "Left", "Up", "Down", "Middle", "Equator", "Side">>
Amplitude == <<"Clockwise", "Fullturn", "Counterclockwise">>

nb_rotations(amplitude) ==
    CASE amplitude = "Clockwise" -> 1
      [] amplitude = "Fullturn" -> 2
      [] amplitude = "Counterclockwise" -> 3

\* every kind with every amplitude, kinds in the outer loop
all_moves ==
    [n \in 1 .. (Len(MoveKind) * Len(Amplitude)) |->
        [kind |-> MoveKind[((n - 1) \div Len(Amplitude)) + 1],
         amplitude |-> Amplitude[((n - 1) % Len(Amplitude)) + 1]]]

NB_MOVES == Len(all_moves)
Moves == 1 .. NB_MOVES

\* the layers parallel to the Up and Down faces turned around the wrong axis
move_axis_of_front_for_up(kind) ==
    CASE kind \in {"Front", "Side", "Back", "Down", "Equator", "Up"} -> "FrontBack"
      [] kind \in {"Right", "Middle", "Left"} -> "RightLeft"

move_axis(kind) ==
    CASE kind \in {"Front", "Side", "Back"} -> "FrontBack"
      [] kind \in {"Right", "Middle", "Left"} -> "RightLeft"
      [] kind \in {"Down", "Equator", "Up"} -> "DownUp"

\* a loop that does one rotation too many
RECURSIVE rotate_times_inclusive(_, _, _)
rotate_times_inclusive(c, axis, n) ==
    IF n < 0 THEN c ELSE rotate_times_inclusive(Coordinate3D_rotate(c, axis), axis, n - 1)

\* n rotations of 90 degrees, one after the other
RECURSIVE rotate_times(_, _, _)
rotate_times(c, axis, n) ==
    IF n = 0 THEN c ELSE rotate_times(Coordinate3D_rotate(c, axis), axis, n - 1)

Coordinate3D_apply_move(c, m) ==
    IF should_move(c, m.kind)
    THEN rotate_times(c, move_axis(m.kind), nb_rotations(m.amplitude))
    ELSE c

Coordinate1D_apply_move(x, m) ==
    Coordinate3D_to_1D(Coordinate3D_apply_move(Coordinate1D_to_3D(x), m))

\* the compiled move: the destination of every square index
Move_new(m) == [i \in Squares |-> Coordinate1D_apply_move(i, m)]

\* the permutation tables of the moves, built once
move_permutation == [n \in Moves |-> Move_new(all_moves[n])]

(***************************************************************************)
(* The cube: 54 colours, six blocks of nine.                               *)
(***************************************************************************)
Cube_solved == [i \in Squares |-> Color_ALL[(i \div NB_SQUARES_FACE) + 1]]

\* for each square, the index it is written from when the permutation is
\* applied: the loop over i writes squares[permutation[i]], so the last index
\* sent to a square is the one that stays; -1 for a square never written
RECURSIVE written_from_loop(_, _, _)
written_from_loop(permutation, i, from) ==
    IF i >= NB_SQUARES_CUBE THEN from
    ELSE written_from_loop(permutation, i + 1,
                           IF permutation[i] \in Squares
                           THEN [from EXCEPT ![permutation[i]] = i]
                           ELSE from)

written_from(permutation) == written_from_loop(permutation, 0, [j \in Squares |-> -1])

move_written_from == [n \in Moves |-> written_from(move_permutation[n])]

\* squares start Invalid and square permutation[i] receives the colour of i
apply_permutation(squares, from) ==
    [j \in Squares |-> IF from[j] < 0 THEN Invalid ELSE squares[from[j]]]

apply_move(cube, n) == apply_permutation(cube, move_written_from[n])

RECURSIVE apply_path(_, _)
apply_path(cube, path) ==
    IF path = <<>> THEN cube
    ELSE apply_path(apply_move(cube, Head(path)), Tail(path))

face_is_solved(cube, face) ==
    \A k \in 0 .. (NB_SQUARES_FACE - 1) :
        cube[face * NB_SQUARES_FACE + k] = cube[face * NB_SQUARES_FACE + 4]

is_solved(cube) == \A face \in 0 .. (NB_FACES - 1) : face_is_solved(cube, face)

RotationAxis == <<"RightLeft", "DownUp", "FrontBack">>

\* the permutation of a rotation of the whole cube along an axis
rotation_permutation ==
    [a \in 1 .. Len(RotationAxis) |->
        [i \in Squares |->
            Coordinate3D_to_1D(Coordinate3D_rotate(Coordinate1D_to_3D(i), RotationAxis[a]))]]

rotation_written_from ==
    [a \in 1 .. Len(RotationAxis) |-> written_from(rotation_permutation[a])]

Cube_rotate(cube, a) == apply_permutation(cube, rotation_written_from[a])

InSeq(x, seq) == \E k \in 1 .. Len(seq) : seq[k] = x

RECURSIVE append_new_rotations(_, _, _)
append_new_rotations(seen, cube, a) ==
    IF a > Len(RotationAxis) THEN seen
    ELSE LET rotated == Cube_rotate(cube, a)
         IN  append_new_rotations(IF InSeq(rotated, seen) THEN seen ELSE Append(seen, rotated),
                                  cube, a + 1)

\* the solved cube in all its orientations, found breadth first
RECURSIVE solved_closure(_, _)
solved_closure(seen, k) ==
    IF k > Len(seen) THEN seen
    ELSE solved_closure(append_new_rotations(seen, seen[k], 1), k + 1)

all_solved_cubes == solved_closure(<<Cube_solved>>, 1)

(***************************************************************************)
(* Permutation coding.                                                     *)
(***************************************************************************)
RECURSIVE nb_partial_permutations(_, _)
nb_partial_permutations(nb_elements, nb_elements_total) ==
    IF nb_elements = 0 THEN 1
    ELSE (nb_elements_total - nb_elements + 1)
         * nb_partial_permutations(nb_elements - 1, nb_elements_total)

nb_permutations(nb_elements) == nb_partial_permutations(nb_elements - 1, nb_elements)

RECURSIVE power(_, _)
power(b, e) == IF e = 0 THEN 1 ELSE b * power(b, e - 1)

\* the loop of decimal_from_(partial_)permutation over the first `last` elements
\* of a zero-based array, with its table of shifted indices
RECURSIVE decimal_loop(_, _, _, _, _, _, _)
decimal_loop(permutation, k, last, shifted_indices, nb_elements_left, base, result) ==
    IF k >= last THEN result
    ELSE LET i == permutation[k]
         IN  decimal_loop(permutation, k + 1, last,
                          [j \in DOMAIN shifted_indices |->
                              IF j >= i + 1 THEN shifted_indices[j] - 1 ELSE shifted_indices[j]],
                          nb_elements_left - 1,
                          base * nb_elements_left,
                          result + base * shifted_indices[i])

\* the last element is skipped
decimal_from_permutation(permutation, NB_ELEMENTS) ==
    decimal_loop(permutation, 0, NB_ELEMENTS - 1,
                 [j \in 0 .. (NB_ELEMENTS - 1) |-> j], NB_ELEMENTS, 1, 0)

decimal_from_partial_permutation(partial_permutation, NB_ELEMENTS, PERMUTATION_SIZE) ==
    decimal_loop(partial_permutation, 0, PERMUTATION_SIZE,
                 [j \in 0 .. (NB_ELEMENTS - 1) |-> j], NB_ELEMENTS, 1, 0)

\* Vec::remove left out: the vector is left as it was
Vec_kept(vec, index) == vec

\* Vec::remove of the element at a zero-based index of a vector (a sequence)
Vec_remove(vec, index) == SubSeq(vec, 1, index) \o SubSeq(vec, index + 2, Len(vec))

\* the loop of (partial_)permutation_from_decimal over the first `last`
\* elements, with its vector of unshifted indices
RECURSIVE permutation_loop(_, _, _, _, _, _)
permutation_loop(decimal, i, last, nb_elements_left, unshifted_indices, permutation) ==
    IF i >= last THEN permutation
    ELSE permutation_loop(
             decimal \div nb_elements_left, i + 1, last, nb_elements_left - 1,
             Vec_remove(unshifted_indices, decimal % nb_elements_left),
             [permutation EXCEPT ![i] = unshifted_indices[(decimal % nb_elements_left) + 1]])

permutation_from_decimal(decimal, NB_ELEMENTS) ==
    permutation_loop(decimal, 0, NB_ELEMENTS, NB_ELEMENTS,
                     [j \in 1 .. NB_ELEMENTS |-> j - 1],
                     [j \in 0 .. (NB_ELEMENTS - 1) |-> 0])

partial_permutation_from_decimal(decimal, NB_ELEMENTS, PERMUTATION_SIZE) ==
    permutation_loop(decimal, 0, PERMUTATION_SIZE, NB_ELEMENTS,
                     [j \in 1 .. NB_ELEMENTS |-> j - 1],
                     [j \in 0 .. (PERMUTATION_SIZE - 1) |-> 0])

\* an array built by writes <<index, value>> made in order over a default value
written_array(domain, default, writes) ==
    [t \in domain |->
        LET hits == {k \in 1 .. Len(writes) : writes[k][1] = t}
        IN  IF hits = {} THEN default
            ELSE writes[CHOOSE k \in hits : \A h \in hits : h <= k][2]]

(***************************************************************************)
(* Corner encoder.                                                         *)
(***************************************************************************)
NB_CORNERS == 8
NB_CORNER_ORIENTATIONS == 3
NB_COLORS == NB_FACES
NB_COLOR_TRIPLETS == NB_COLORS * NB_COLORS * NB_COLORS

index_of_color_triplet(c1, c2, c3) == c1 + NB_COLORS * (c2 + NB_COLORS * c3)

corner_triplets ==
    << <<Orange, Green, White>>, <<White, Green, Red>>, <<Green, Yellow, Red>>,
       <<Orange, Yellow, Green>>, <<Yellow, Blue, Red>>, <<Red, Blue, White>>,
       <<Orange, White, Blue>>, <<Blue, Yellow, Orange>> >>

\* the six writes made for the corner of index n - 1
corner_triplet_writes(n) ==
    LET c1 == corner_triplets[n][1]
        c2 == corner_triplets[n][2]
        c3 == corner_triplets[n][3]
    IN  << <<index_of_color_triplet(c1, c2, c3), <<n - 1, 0>> >>,
           <<index_of_color_triplet(c1, c3, c2), <<n - 1, 0>> >>,
           <<index_of_color_triplet(c2, c1, c3), <<n - 1, 1>> >>,
           <<index_of_color_triplet(c2, c3, c1), <<n - 1, 1>> >>,
           <<index_of_color_triplet(c3, c2, c1), <<n - 1, 2>> >>,
           <<index_of_color_triplet(c3, c1, c2), <<n - 1, 2>> >> >>

compute_table_corner_of_triplet ==
    written_array(0 .. (NB_COLOR_TRIPLETS - 1), <<0, 0>>,
                  [k \in 1 .. (6 * NB_CORNERS) |->
                      corner_triplet_writes(((k - 1) \div 6) + 1)[((k - 1) % 6) + 1]])

corner_coordinates ==
    << <<0, 0, 0>>, <<2, 0, 0>>, <<0, 2, 0>>, <<0, 0, 2>>,
       <<2, 2, 0>>, <<2, 0, 2>>, <<0, 2, 2>>, <<2, 2, 2>> >>

\* the squares of each corner, in order left_right, down_up, front_back
compute_corners_1D_indexes ==
    [n \in 1 .. NB_CORNERS |->
        LET lr == corner_coordinates[n][1]
            du == corner_coordinates[n][2]
            fb == corner_coordinates[n][3]
        IN  <<Coordinate3D_to_1D(Coordinate3D_new(lr, du, fb, "RightLeft")),
              Coordinate3D_to_1D(Coordinate3D_new(lr, du, fb, "DownUp")),
              Coordinate3D_to_1D(Coordinate3D_new(lr, du, fb, "FrontBack"))>>]

CornerEncoder_nb_indexes == nb_permutations(NB_CORNERS) * power(NB_CORNER_ORIENTATIONS, NB_CORNERS)

\* the pair (corner index, orientation index) read at corner position n
corner_at(cube, n) ==
    compute_table_corner_of_triplet[
        index_of_color_triplet(cube[compute_corners_1D_indexes[n][1]],
                               cube[compute_corners_1D_indexes[n][2]],
                               cube[compute_corners_1D_indexes[n][3]])]

RECURSIVE corner_orientation_loop(_, _, _)
corner_orientation_loop(cube, n, total_orientation_index) ==
    IF n > NB_CORNERS THEN total_orientation_index
    ELSE corner_orientation_loop(cube, n + 1,
            total_orientation_index * NB_CORNER_ORIENTATIONS + corner_at(cube, n)[2])

CornerEncoder_encode(cube) ==
    LET permutation == [i \in 0 .. (NB_CORNERS - 1) |-> corner_at(cube, i + 1)[1]]
        total_orientation_index == corner_orientation_loop(cube, 1, 0)
    IN  decimal_from_permutation(permutation, NB_CORNERS)
        + total_orientation_index * nb_permutations(NB_CORNERS)

(***************************************************************************)
(* Middle encoders: USE_LOWER_MIDDLES keeps the first six middles, the     *)
(* other encoder the last six.                                             *)
(***************************************************************************)
NB_MIDDLES_KEPT == 6
NB_MIDDLES == 12
NB_MIDDLE_ORIENTATIONS == 2
\* the pairs counted with the Invalid colour among the colours
NB_COLOR_PAIRS_with_invalid == (NB_COLORS + 1) * (NB_COLORS + 1)

NB_COLOR_PAIRS == NB_COLORS * NB_COLORS

index_of_color_pair(c1, c2) == c1 + NB_COLORS * c2

middle_pairs ==
    << <<Orange, Green>>, <<Green, Red>>, <<Red, Blue>>, <<Blue, Orange>>,
       <<White, Green>>, <<Green, Yellow>>, <<Yellow, Blue>>, <<Blue, White>>,
       <<Orange, White>>, <<White, Red>>, <<Red, Yellow>>, <<Yellow, Orange>> >>

\* the table of (middle index, orientation index) of a pair of colours
compute_tables ==
    written_array(0 .. (NB_COLOR_PAIRS - 1), <<0, 0>>,
                  [k \in 1 .. (2 * NB_MIDDLES) |->
                      LET n == ((k - 1) \div 2) + 1
                          c1 == middle_pairs[n][1]
                          c2 == middle_pairs[n][2]
                      IN  IF k % 2 = 1
                          THEN <<index_of_color_pair(c1, c2), <<n - 1, 0>> >>
                          ELSE <<index_of_color_pair(c2, c1), <<n - 1, 1>> >>])

middle_coordinates ==
    << <<1, 0, 0>>, <<0, 1, 0>>, <<0, 0, 1>>, <<1, 2, 0>>, <<1, 0, 2>>, <<2, 1, 0>>,
       <<0, 1, 2>>, <<2, 0, 1>>, <<0, 2, 1>>, <<1, 2, 2>>, <<2, 1, 2>>, <<2, 2, 1>> >>

\* the two squares of each middle
compute_middles_1D_indexes ==
    [n \in 1 .. NB_MIDDLES |->
        LET lr == middle_coordinates[n][1]
            du == middle_coordinates[n][2]
            fb == middle_coordinates[n][3]
        IN  IF lr = 1
            THEN <<Coordinate3D_to_1D(Coordinate3D_new(lr, du, fb, "DownUp")),
                   Coordinate3D_to_1D(Coordinate3D_new(lr, du, fb, "FrontBack"))>>
            ELSE IF du = 1
            THEN <<Coordinate3D_to_1D(Coordinate3D_new(lr, du, fb, "RightLeft")),
                   Coordinate3D_to_1D(Coordinate3D_new(lr, du, fb, "FrontBack"))>>
            ELSE <<Coordinate3D_to_1D(Coordinate3D_new(lr, du, fb, "RightLeft")),
                   Coordinate3D_to_1D(Coordinate3D_new(lr, du, fb, "DownUp"))>>]

MiddleEncoder_nb_indexes ==
    nb_partial_permutations(NB_MIDDLES_KEPT, NB_MIDDLES)
    * power(NB_MIDDLE_ORIENTATIONS, NB_MIDDLES_KEPT)

\* a shift of the upper middles that is one too far
shift_middle_index_short(USE_LOWER_MIDDLES, middle_index) ==
    IF USE_LOWER_MIDDLES THEN middle_index ELSE NB_MIDDLES - middle_index

shift_middle_index(USE_LOWER_MIDDLES, middle_index) ==
    IF USE_LOWER_MIDDLES THEN middle_index ELSE NB_MIDDLES - 1 - middle_index

\* the loop of encode over the positions i = n - 1, carrying the permutation
\* (middle index -> position index) and the orientation index
RECURSIVE middle_loop(_, _, _, _, _)
middle_loop(USE_LOWER_MIDDLES, cube, n, permutation, total_orientation_index) ==
    LET skipped == middle_loop(USE_LOWER_MIDDLES, cube, n + 1, permutation,
                               total_orientation_index)
        kept(shifted_middle_index, orientation_index) ==
            IF shifted_middle_index < NB_MIDDLES_KEPT
            THEN middle_loop(USE_LOWER_MIDDLES, cube, n + 1,
                     [permutation EXCEPT ![shifted_middle_index] = n - 1],
                     total_orientation_index
                     + orientation_index
                       * power(NB_MIDDLE_ORIENTATIONS, shifted_middle_index))
            ELSE skipped
        found(pair_index) ==
            IF pair_index >= NB_COLOR_PAIRS THEN skipped
            ELSE kept(shift_middle_index(USE_LOWER_MIDDLES, compute_tables[pair_index][1]),
                      compute_tables[pair_index][2])
    IN  IF n > NB_MIDDLES
        THEN [permutation |-> permutation, total_orientation_index |-> total_orientation_index]
        ELSE found(index_of_color_pair(cube[compute_middles_1D_indexes[n][1]],
                                       cube[compute_middles_1D_indexes[n][2]]))

MiddleEncoder_encode(USE_LOWER_MIDDLES, cube) ==
    LET index_of(read) ==
            decimal_from_partial_permutation(read.permutation, NB_MIDDLES, NB_MIDDLES_KEPT)
            + read.total_orientation_index
              * nb_partial_permutations(NB_MIDDLES_KEPT, NB_MIDDLES)
    IN  index_of(middle_loop(USE_LOWER_MIDDLES, cube, 1,
                             [i \in 0 .. (NB_MIDDLES_KEPT - 1) |-> 0], 0))

\* the three encoders of the Korf heuristic
Encoders == {"corners", "lower_middles", "upper_middles"}

Encoder_encode(encoder, cube) ==
    CASE encoder = "corners" -> CornerEncoder_encode(cube)
      [] encoder = "lower_middles" -> MiddleEncoder_encode(TRUE, cube)
      [] encoder = "upper_middles" -> MiddleEncoder_encode(FALSE, cube)

Encoder_nb_indexes(encoder) ==
    IF encoder = "corners" THEN CornerEncoder_nb_indexes ELSE MiddleEncoder_nb_indexes

(***************************************************************************)
(* Pattern database fill (TableHeuristic::new).  The two arrays are kept   *)
(* sparse: an index absent from depth_cubes holds -1, an index absent from *)
(* table holds None.                                                       *)
(***************************************************************************)
array_get(array, index, default) ==
    IF index \in DOMAIN array THEN array[index] ELSE default

array_set(array, index, value) ==
    IF index \in DOMAIN array THEN [array EXCEPT ![index] = value]
    ELSE array @@ (index :> value)

empty_array == [index \in {} |-> 0]

\* a cube is passed when it was already explored, whatever depth was left then
explored_once(depth_cube, depth_left) == depth_cube < 0

\* a cube is explored unless it was already explored with that much depth left
needs_exploration(depth_cube, depth_left) == depth_cube < depth_left

\* at the depth limit: registers the depth of a cube not in the table yet
register_depth(fill_state, index, depth) ==
    IF index \notin DOMAIN fill_state.table
    THEN [fill_state EXCEPT !.table = array_set(@, index, depth), !.nb_new_cubes = @ + 1]
    ELSE fill_state

RECURSIVE iterative_deepening(_, _, _, _, _, _)
RECURSIVE iterative_deepening_moves(_, _, _, _, _, _, _)

\* fill_state carries depth_cubes, table and nb_new_cubes through the search.
\* The loops below read nb_new_cubes (a count, never negative) in their exit
\* test: the state handed to an iteration is then evaluated before the
\* iteration starts, as in the code, and not left pending behind it.
iterative_deepening(encoder, moves, cube, fill_state, depth, max_depth) ==
    LET explored(index, depth_left) ==
            IF needs_exploration(array_get(fill_state.depth_cubes, index, -1), depth_left)
            THEN IF depth = max_depth
                 THEN register_depth(
                          [fill_state EXCEPT !.depth_cubes = array_set(@, index, depth_left)],
                          index, depth)
                 ELSE iterative_deepening_moves(
                          encoder, moves, cube,
                          [fill_state EXCEPT !.depth_cubes = array_set(@, index, depth_left)],
                          depth, max_depth, 1)
            ELSE fill_state
    IN  explored(Encoder_encode(encoder, cube), max_depth - depth)

\* the loop over the moves, from the n-th move on
iterative_deepening_moves(encoder, moves, cube, fill_state, depth, max_depth, n) ==
    IF n > Len(moves) \/ fill_state.nb_new_cubes < 0 THEN fill_state
    ELSE iterative_deepening_moves(
             encoder, moves, cube,
             iterative_deepening(encoder, moves, apply_move(cube, moves[n]), fill_state,
                                 depth + 1, max_depth),
             depth, max_depth, n + 1)

\* the state of the fill before depth 0
fill_start == [depth_cubes |-> empty_array, table |-> empty_array, nb_new_cubes |-> 0]

\* a fill that starts from the first solved cube only
fill_first_cube_only(encoder, moves, solved_cubes, fill_state, depth, k) ==
    iterative_deepening(encoder, moves, solved_cubes[1], fill_state, 0, depth)

\* a depth that begins with a table and depths of cubes made anew
RECURSIVE fill_depth_loop_fresh(_, _, _, _, _, _)
fill_depth_loop_fresh(encoder, moves, solved_cubes, fill_state, depth, k) ==
    IF k > Len(solved_cubes) THEN fill_state
    ELSE fill_depth_loop_fresh(encoder, moves, solved_cubes,
                               iterative_deepening(encoder, moves, solved_cubes[k],
                                                   IF k = 1 THEN fill_start ELSE fill_state,
                                                   0, depth),
                               depth, k + 1)

\* the loop over the solved cubes for one depth, from solved cube k on
RECURSIVE fill_depth_loop(_, _, _, _, _, _)
fill_depth_loop(encoder, moves, solved_cubes, fill_state, depth, k) ==
    IF k > Len(solved_cubes) \/ fill_state.nb_new_cubes < 0 THEN fill_state
    ELSE fill_depth_loop(encoder, moves, solved_cubes,
                         iterative_deepening(encoder, moves, solved_cubes[k], fill_state,
                                             0, depth),
                         depth, k + 1)

\* the depths 0 .. last_depth of the fill, one after the other
RECURSIVE fill_to_depth(_, _, _, _, _, _)
fill_to_depth(encoder, moves, solved_cubes, fill_state, depth, last_depth) ==
    IF depth > last_depth \/ fill_state.nb_new_cubes < 0 THEN fill_state
    ELSE fill_to_depth(encoder, moves, solved_cubes,
                       fill_depth_loop(encoder, moves, solved_cubes, fill_state, depth, 1),
                       depth + 1, last_depth)

\* the table of each encoder after the depths 0 .. FillDepth; the entries the
\* fill writes at later depths are absent from it
heuristic_table ==
    [encoder \in Encoders |->
        fill_to_depth(encoder, [n \in Moves |-> n], all_solved_cubes, fill_start,
                      0, FillDepth).table]

(***************************************************************************)
(* The heuristics.  The tables are filled up to FillDepth only: an entry   *)
(* the fill has not written by then is written, if ever, at a later depth, *)
(* and is read as FillDepth + 1.  The value read is the value of the full  *)
(* table wherever that one is at most FillDepth + 1, and is never above it.*)
(***************************************************************************)
table_distance(table, index) ==
    IF index \in DOMAIN table THEN table[index] ELSE FillDepth + 1

TableHeuristic_optimistic_distance_to_solved(encoder, cube) ==
    table_distance(heuristic_table[encoder], Encoder_encode(encoder, cube))

max(a, b) == IF a >= b THEN a ELSE b

\* the three distances added instead of the largest taken
sum_of_distances(cube) ==
    TableHeuristic_optimistic_distance_to_solved("corners", cube)
    + TableHeuristic_optimistic_distance_to_solved("lower_middles", cube)
    + TableHeuristic_optimistic_distance_to_solved("upper_middles", cube)

KorfHeuristic_optimistic_distance_to_solved(cube) ==
    max(max(TableHeuristic_optimistic_distance_to_solved("corners", cube),
            TableHeuristic_optimistic_distance_to_solved("lower_middles", cube)),
        TableHeuristic_optimistic_distance_to_solved("upper_middles", cube))

(***************************************************************************)
(* The move engine on its own: one move, picked at the first turn, is      *)
(* applied again and again to a square index and to a cube.                *)
(***************************************************************************)
Idle == "idle"

move_index(kind, amplitude) ==
    CHOOSE n \in Moves : all_moves[n] = [kind |-> kind, amplitude |-> amplitude]

\* the scramble R1 U1 F1
RUF == <<move_index("Right", "Clockwise"), move_index("Up", "Clockwise"),
         move_index("Front", "Clockwise")>>

StartCubes == {Cube_solved, apply_path(Cube_solved, RUF)}

InitMove ==
    /\ mode = "turning"
    /\ start_cube \in StartCubes
    /\ current_cube = start_cube
    /\ moves_done = <<>>
    /\ start_square \in Squares
    /\ current_square = start_square
    /\ outcome = Idle
    /\ pdb = Idle

\* Coordinate1D::apply_move on the square, Cube::apply_move on the cube; a
\* coordinate that converts to no face (-1) is a panic: nothing follows it
Turn(n) ==
    /\ mode = "turning"
    /\ Len(moves_done) < MaxTurns
    /\ n = IF moves_done = <<>> THEN n ELSE moves_done[1]
    /\ current_square \in Squares
    /\ current_square' = move_permutation[n][current_square]
    /\ current_cube' = apply_move(current_cube, n)
    /\ moves_done' = Append(moves_done, n)
    /\ UNCHANGED <<mode, start_cube, start_square, outcome, pdb>>

NextMove == \E n \in Moves : Turn(n)

SpecMove == InitMove /\ [][NextMove]_vars

nb_squares_of_color(cube, color) == Cardinality({i \in Squares : cube[i] = color})

\* the turns that bring a move back to where it started: 4 quarter turns, 2 half turns
is_full_circle(n, nb_turns) ==
    IF all_moves[n].amplitude = "Fullturn" THEN nb_turns \in {2, 4} ELSE nb_turns = 4

\* C9: four quarter turns, or two half turns, of any move send every square
\* index back to itself, and so give back the cube they were applied to.
C9_FullCircleIsIdentity ==
    (mode = "turning" /\ moves_done # <<>>
     /\ is_full_circle(moves_done[1], Len(moves_done)))
    => (current_square = start_square /\ current_cube = start_cube)

\* four quarter turns were made, of a move that displaces the square followed,
\* on a scrambled cube
C9_Witness ==
    /\ mode = "turning"
    /\ Len(moves_done) = 4
    /\ all_moves[moves_done[1]].amplitude = "Clockwise"
    /\ move_permutation[moves_done[1]][start_square] # start_square
    /\ start_cube # Cube_solved
    /\ current_square = start_square
    /\ current_cube = start_cube

\* every index is sent to an index of the cube and every index is reached:
\* among 54 indices this makes the mapping one to one
is_bijection(permutation) ==
    /\ \A i \in Squares : permutation[i] \in Squares
    /\ {permutation[i] : i \in Squares} = Squares

all_moves_are_bijections == \A n \in Moves : is_bijection(move_permutation[n])

\* C10: the compiled mapping of every move sends the 54 indices onto the 54
\* indices, no index to the face -1 and no two to the same place, and a cube
\* keeps its number of squares of each colour whatever the moves applied.
C10_MoveIsBijection ==
    /\ all_moves_are_bijections
    /\ mode = "turning" =>
           /\ current_square \in Squares
           /\ \A color \in 0 .. Invalid :
                  nb_squares_of_color(current_cube, color)
                  = nb_squares_of_color(start_cube, color)

\* a move was applied that changed the cube and displaced the square followed
C10_Witness ==
    /\ mode = "turning"
    /\ Len(moves_done) = 1
    /\ current_cube # start_cube
    /\ current_square # start_square
    /\ start_cube # Cube_solved

\* the state before any operation: a solved cube, no move done, and the mode
\* that says which part of the program runs
InitAt(first_mode) ==
    /\ mode = first_mode
    /\ start_cube = Cube_solved
    /\ current_cube = start_cube
    /\ moves_done = <<>>
    /\ start_square = 0
    /\ current_square = 0
    /\ outcome = Idle
    /\ pdb = Idle

(***************************************************************************)
(* A walk away from the solved cube, one twist at a time, among two face   *)
(* turns and four turns of the centre slices.                              *)
(***************************************************************************)
WalkMoves ==
    {move_index("Right", "Clockwise"), move_index("Up", "Clockwise"),
     move_index("Side", "Clockwise"), move_index("Side", "Counterclockwise"),
     move_index("Middle", "Clockwise"), move_index("Middle", "Counterclockwise")}

Twist(n) ==
    /\ mode = "walking"
    /\ Len(moves_done) < MaxTwists
    /\ current_cube' = apply_move(current_cube, n)
    /\ moves_done' = Append(moves_done, n)
    /\ UNCHANGED <<mode, start_cube, start_square, current_square, outcome, pdb>>

NextWalk == \E n \in WalkMoves : Twist(n)

SpecWalk == InitAt("walking") /\ [][NextWalk]_vars

\* the indexes of the solved cubes
solved_indexes(encoder) ==
    {Encoder_encode(encoder, all_solved_cubes[k]) : k \in 1 .. Len(all_solved_cubes)}

\* whether at most k twists bring what the encoder reads of the cube to what
\* it reads of a solved cube
RECURSIVE within_twists(_, _, _, _)
within_twists(encoder, solved, cube, k) ==
    \/ Encoder_encode(encoder, cube) \in solved
    \/ /\ k > 0
       /\ \E n \in Moves : within_twists(encoder, solved, apply_move(cube, n), k - 1)

\* the cubes at most k twists away from a solved cube
RECURSIVE cubes_within(_)
cubes_within(k) ==
    IF k = 0 THEN {all_solved_cubes[j] : j \in 1 .. Len(all_solved_cubes)}
    ELSE LET grown(cubes) == cubes \cup {apply_move(cube, n) : cube \in cubes, n \in Moves}
         IN  grown(cubes_within(k - 1))

\* the table of a breadth-first search: each index is written at the first
\* distance, from distance on, at which a cube that has it is met
RECURSIVE breadth_first(_, _, _, _)
breadth_first(encoder, table, distance, last_distance) ==
    IF distance > last_distance THEN table
    ELSE LET extended(indexes) ==
                 [index \in DOMAIN table \cup indexes |->
                     IF index \in DOMAIN table THEN table[index] ELSE distance]
         IN  breadth_first(encoder,
                           extended({Encoder_encode(encoder, cube) :
                                         cube \in cubes_within(distance)}),
                           distance + 1, last_distance)

\* C5: when the fill has finished depth D, the table holds D exactly at the
\* indexes whose least number of twists to a solved cube is D, and nothing at
\* the indexes further away: the table is that of a breadth-first search, for
\* the cube of the walk and, at the start of the walk, for every index.
C5_TableHoldsMinimumDepth ==
    mode = "walking"
    => /\ \A encoder \in Encoders :
              LET solved == solved_indexes(encoder)
                  distance == TableHeuristic_optimistic_distance_to_solved(encoder,
                                                                          current_cube)
              IN  \A D \in 0 .. FillDepth :
                      (distance = D)
                      <=> /\ within_twists(encoder, solved, current_cube, D)
                          /\ D = 0 \/ ~within_twists(encoder, solved, current_cube, D - 1)
       /\ moves_done = <<>>
          => \A encoder \in Encoders :
                 \A D \in 0 .. FillDepth :
                     fill_to_depth(encoder, [n \in Moves |-> n], all_solved_cubes,
                                   fill_start, 0, D).table
                     = breadth_first(encoder, empty_array, 0, D)

\* a cube of the walk that is two twists or more into the walk while its
\* corners are one twist away from those of a solved cube
C5_Witness ==
    /\ mode = "walking"
    /\ Len(moves_done) >= 2
    /\ TableHeuristic_optimistic_distance_to_solved("corners", current_cube) = 1
    /\ within_twists("corners", solved_indexes("corners"), current_cube, 1)
    /\ ~within_twists("corners", solved_indexes("corners"), current_cube, 0)
    /\ ~is_solved(current_cube)

\* the twists of the centre slices
is_center_layer(kind) == kind \in {"Middle", "Equator", "Side"}

\* the moves the corner table of CornersHeuristic is built with
corner_moves ==
    LET kept == {n \in Moves : ~is_center_layer(all_moves[n].kind)}
        RECURSIVE filtered(_)
        filtered(n) ==
            IF n > NB_MOVES THEN <<>>
            ELSE (IF n \in kept THEN <<n>> ELSE <<>>) \o filtered(n + 1)
    IN  filtered(1)

\* C24: a twist of a centre slice, whatever its amplitude, leaves the corner
\* index of the cube as it is, and the corner table filled with the 27 moves
\* is the one filled without the twists of the centre slices.
C24_CentreTwistsKeepCornerIndex ==
    mode = "walking"
    => /\ \A n \in Moves :
              is_center_layer(all_moves[n].kind)
              => CornerEncoder_encode(apply_move(current_cube, n))
                 = CornerEncoder_encode(current_cube)
       /\ moves_done = <<>>
          => fill_to_depth("corners", corner_moves, all_solved_cubes, fill_start,
                           0, FillDepth).table
             = heuristic_table["corners"]

\* a cube reached by face twists and by twists of the centre slices, that a
\* twist of a centre slice changes while its corner index stays
C24_Witness ==
    /\ mode = "walking"
    /\ Len(moves_done) >= 2
    /\ \E j \in 1 .. Len(moves_done) : is_center_layer(all_moves[moves_done[j]].kind)
    /\ \E j \in 1 .. Len(moves_done) : ~is_center_layer(all_moves[moves_done[j]].kind)
    /\ CornerEncoder_encode(current_cube) # CornerEncoder_encode(Cube_solved)
    /\ \E n \in Moves :
           /\ is_center_layer(all_moves[n].kind)
           /\ apply_move(current_cube, n) # current_cube
           /\ CornerEncoder_encode(apply_move(current_cube, n))
              = CornerEncoder_encode(current_cube)

rotations_of(cube) == solved_closure(<<cube>>, 1)

\* C16: the table of each encoder gives the same distance to a cube and to
\* each of its 24 rotations as a whole.
C16_TableIsRotationInvariant ==
    mode = "walking"
    => LET rotations == rotations_of(current_cube)
       IN  \A encoder \in Encoders :
               \A k \in 1 .. Len(rotations) :
                   TableHeuristic_optimistic_distance_to_solved(encoder, rotations[k])
                   = TableHeuristic_optimistic_distance_to_solved(encoder, current_cube)

\* a cube one twist from the solved cube has 24 orientations, all of them at
\* distance 1 in the corner table under indexes that are not all the same
C16_Witness ==
    /\ mode = "walking"
    /\ Len(moves_done) = 1
    /\ Len(rotations_of(current_cube)) = 24
    /\ TableHeuristic_optimistic_distance_to_solved("corners", current_cube) = 1
    /\ \E k \in 1 .. 24 :
           /\ CornerEncoder_encode(rotations_of(current_cube)[k])
              # CornerEncoder_encode(current_cube)
           /\ TableHeuristic_optimistic_distance_to_solved(
                  "corners", rotations_of(current_cube)[k]) = 1

\* C7: the Korf heuristic is 0 on the solved cubes and on them only.
C7_ZeroIffSolved ==
    mode = "walking"
    => (KorfHeuristic_optimistic_distance_to_solved(current_cube) = 0
        <=> is_solved(current_cube))

(***************************************************************************)
(* Iterative deepening A*.  A search carries the path (move indexes, the   *)
(* code's path[depth] being path[depth + 1] here), the two counters,       *)
(* next_depth, the returned boolean is_sucess, and panicked, set by a      *)
(* write out of the bounds of the path.                                    *)
(***************************************************************************)
\* usize::MAX, here the largest integer of the checker: no depth comes near it
usize_MAX == 2147483647

dummy_move == move_index("Front", "Clockwise")

\* a solution counted as found above its depth only
found_only_above(minimum_final_depth, target_depth, cube) ==
    minimum_final_depth < target_depth /\ is_solved(cube)

found_solution(minimum_final_depth, target_depth, cube) ==
    minimum_final_depth = target_depth /\ is_solved(cube)

RECURSIVE solve_iterative_deepening_Astar_rec(_, _, _, _)
RECURSIVE rec_moves(_, _, _, _, _)

solve_iterative_deepening_Astar_rec(cube, search, depth, target_depth) ==
    LET called == [search EXCEPT !.nb_heuristic_calls = @ + 1]
        compared(minimum_final_depth) ==
            IF minimum_final_depth > target_depth
            THEN [called EXCEPT !.next_depth = IF minimum_final_depth < @
                                                THEN minimum_final_depth ELSE @,
                                !.is_sucess = FALSE]
            ELSE IF found_solution(minimum_final_depth, target_depth, cube)
                 THEN [called EXCEPT !.is_sucess = TRUE]
                 ELSE rec_moves(cube, [called EXCEPT !.nb_cube_expanded = @ + 1],
                                depth, target_depth, 1)
    IN  compared(depth + KorfHeuristic_optimistic_distance_to_solved(cube))

\* the loop over the moves, from move n on
rec_moves(cube, search, depth, target_depth, n) ==
    LET returned(child) ==
            IF child.is_sucess \/ child.panicked THEN child
            ELSE rec_moves(cube, child, depth, target_depth, n + 1)
    IN  IF search.panicked \/ n > NB_MOVES THEN [search EXCEPT !.is_sucess = FALSE]
        ELSE IF depth >= Len(search.path)
             THEN [search EXCEPT !.panicked = TRUE, !.is_sucess = FALSE]
             ELSE returned(solve_iterative_deepening_Astar_rec(
                               apply_move(cube, n), [search EXCEPT !.path[depth + 1] = n],
                               depth + 1, target_depth))

new_search(path, nb_cube_expanded, nb_heuristic_calls) ==
    [path |-> path, nb_cube_expanded |-> nb_cube_expanded,
     nb_heuristic_calls |-> nb_heuristic_calls, next_depth |-> usize_MAX,
     is_sucess |-> FALSE, panicked |-> FALSE]

\* the target depth one above the depth that next_depth names
skipped_target_depth(target_depth, next_depth) ==
    IF next_depth = usize_MAX THEN target_depth + 1 ELSE next_depth + 1

next_target_depth(target_depth, next_depth) ==
    IF next_depth = usize_MAX THEN target_depth + 1 ELSE next_depth

RECURSIVE padded(_, _)
padded(path, target_depth) ==
    IF Len(path) <= target_depth THEN padded(Append(path, dummy_move), target_depth)
    ELSE path

\* the path left as long as the search made it
not_truncated(path, len) == path

truncate(path, len) == IF Len(path) > len THEN SubSeq(path, 1, len) ELSE path

\* what a solver hands back: the path and the counters it displays; panicked
\* when the search wrote out of the path; exhausted when the model stopped a
\* search whose target depth went above MaxScramble
solver_result(path, search, panicked, exhausted) ==
    [path |-> path, nb_cube_expanded |-> search.nb_cube_expanded,
     nb_heuristic_calls |-> search.nb_heuristic_calls,
     panicked |-> panicked, exhausted |-> exhausted]

RECURSIVE sequential_loop(_, _, _)
sequential_loop(cube, search, target_depth) ==
    LET returned(run) ==
            IF run.panicked THEN solver_result(run.path, run, TRUE, FALSE)
            ELSE IF run.is_sucess
                 THEN solver_result(truncate(run.path, target_depth), run, FALSE, FALSE)
                 ELSE IF next_target_depth(target_depth, run.next_depth) > MaxScramble
                      THEN solver_result(run.path, run, FALSE, TRUE)
                      ELSE sequential_loop(
                               cube,
                               [run EXCEPT !.path = padded(@, next_target_depth(
                                                                  target_depth, run.next_depth))],
                               next_target_depth(target_depth, run.next_depth))
    IN  returned(solve_iterative_deepening_Astar_rec(
                     cube, new_search(search.path, search.nb_cube_expanded,
                                      search.nb_heuristic_calls), 0, target_depth))

solve_iterative_deepening_Astar(cube) ==
    sequential_loop(cube, new_search(<<>>, 0, 0), 0)

\* one round of the parallel solver: the search of each once expanded cube,
\* as <<move, search>>
parallel_round(cube, shifted_target_depth) ==
    {<<n, solve_iterative_deepening_Astar_rec(
              apply_move(cube, n), new_search(padded(<<n>>, shifted_target_depth), 0, 0),
              0, shifted_target_depth)>> : n \in Moves}

\* fetch_add over the searches of a round, from the one of move n on
RECURSIVE sum_of(_, _, _)
sum_of(round, counter, n) ==
    IF n > NB_MOVES THEN 0
    ELSE (CHOOSE a \in round : a[1] = n)[2][counter] + sum_of(round, counter, n + 1)

\* fetch_min over the searches of a round
min_next_depth(round) ==
    CHOOSE least \in {a[2].next_depth : a \in round} :
        \A a \in round : least <= a[2].next_depth

\* the rounds of the parallel solver up to the first one in which a search
\* panics or succeeds; counters holds the counts of the rounds before it
RECURSIVE parallel_loop(_, _, _)
parallel_loop(cube, counters, shifted_target_depth) ==
    LET counted(round) ==
            [counters EXCEPT
                !.nb_cube_expanded = @ + sum_of(round, "nb_cube_expanded", 1),
                !.nb_heuristic_calls = @ + sum_of(round, "nb_heuristic_calls", 1)]
        next(round) == next_target_depth(shifted_target_depth, min_next_depth(round))
        joined(round) ==
            IF \E a \in round : a[2].panicked \/ a[2].is_sucess
            THEN [round |-> round, counters |-> counters,
                  shifted_target_depth |-> shifted_target_depth, exhausted |-> FALSE]
            ELSE IF next(round) + 1 > MaxScramble
                 THEN [round |-> round, counters |-> counted(round),
                       shifted_target_depth |-> shifted_target_depth, exhausted |-> TRUE]
                 ELSE parallel_loop(cube, counted(round), next(round))
    IN  joined(parallel_round(cube, shifted_target_depth))

\* what the parallel solver displays and returns once the rounds are over
\* with the search a; find_map_any may have cut short the other searches of
\* the last round, which then count nothing (all_ran false), or have let them
\* all run (all_ran true)
parallel_result(last, a, all_ran) ==
    solver_result(
        truncate(a[2].path, last.shifted_target_depth + 1),
        [nb_cube_expanded |-> last.counters.nb_cube_expanded
             + (IF all_ran THEN sum_of(last.round, "nb_cube_expanded", 1)
                ELSE a[2].nb_cube_expanded),
         nb_heuristic_calls |-> last.counters.nb_heuristic_calls
             + (IF all_ran THEN sum_of(last.round, "nb_heuristic_calls", 1)
                ELSE a[2].nb_heuristic_calls)],
        FALSE, FALSE)

\* find_map_any hands back the path of any search that succeeded
parallel_results(cube) ==
    LET returned(last) ==
            IF last.exhausted
            THEN {solver_result(<<>>, last.counters, FALSE, TRUE)}
            ELSE IF \E a \in last.round : a[2].panicked
                 THEN {solver_result(<<>>, last.counters, TRUE, FALSE)}
                 ELSE {parallel_result(last, a, all_ran) :
                           a \in {b \in last.round : b[2].is_sucess},
                           all_ran \in BOOLEAN}
    IN  IF is_solved(cube)
        THEN {solver_result(<<>>, new_search(<<>>, 0, 0), FALSE, FALSE)}
        ELSE returned(parallel_loop(cube, new_search(<<>>, 1, 0), 0))

(***************************************************************************)
(* The program: a solved cube is scrambled by up to MaxScramble moves and  *)
(* handed to a solver.  The first move of the scramble is any of the 27    *)
(* moves, the following ones are among MoreMoves.                          *)
(***************************************************************************)
MoreMoves ==
    {move_index("Up", "Clockwise"), move_index("Up", "Counterclockwise"),
     move_index("Front", "Clockwise"), move_index("Equator", "Fullturn")}

Scramble(n) ==
    /\ mode = "scrambling"
    /\ Len(moves_done) < MaxScramble
    /\ n \in IF moves_done = <<>> THEN Moves ELSE MoreMoves
    /\ current_cube' = apply_move(current_cube, n)
    /\ moves_done' = Append(moves_done, n)
    /\ UNCHANGED <<mode, start_cube, start_square, current_square, outcome, pdb>>

SolveSequential ==
    /\ mode = "scrambling"
    /\ mode' = "solved_sequential"
    /\ outcome' = solve_iterative_deepening_Astar(current_cube)
    /\ UNCHANGED <<start_cube, current_cube, moves_done, start_square, current_square, pdb>>

SolveParallel ==
    /\ mode = "scrambling"
    /\ mode' = "solved_parallel"
    /\ outcome' \in parallel_results(current_cube)
    /\ UNCHANGED <<start_cube, current_cube, moves_done, start_square, current_square, pdb>>

NextSolve ==
    \/ \E n \in Moves : Scramble(n)
    \/ SolveSequential
    \/ SolveParallel

SpecSolve == InitAt("scrambling") /\ [][NextSolve]_vars

Solved == mode \in {"solved_sequential", "solved_parallel"}

\* C1: the moves that the parallel solver returns, applied to the cube it was
\* given, lead to a solved cube.
C1_ParallelPathSolves ==
    mode = "solved_parallel" => is_solved(apply_path(current_cube, outcome.path))

\* some sequence of at most k moves solves the cube
RECURSIVE solvable_within(_, _)
solvable_within(cube, k) ==
    \/ is_solved(cube)
    \/ k > 0 /\ \E n \in Moves : solvable_within(apply_move(cube, n), k - 1)

\* the least number of moves that solve the cube, MaxScramble + 1 standing
\* for any number above MaxScramble
RECURSIVE least_from(_, _)
least_from(cube, k) ==
    IF k > MaxScramble \/ solvable_within(cube, k) THEN k ELSE least_from(cube, k + 1)

optimal_length(cube) == least_from(cube, 0)

\* C2: the path that a solver returns, sequential or parallel, has the length
\* of a shortest solution of the cube it was given.
C2_PathLengthIsOptimal ==
    Solved => /\ ~outcome.panicked
              /\ ~outcome.exhausted
              /\ Len(outcome.path) = optimal_length(current_cube)

\* both solvers have returned for a cube that needs two moves and no less
C2_Witness ==
    /\ Solved
    /\ Len(moves_done) = 2
    /\ optimal_length(current_cube) = 2
    /\ Len(outcome.path) = 2

inverse_amplitude(amplitude) ==
    CASE amplitude = "Clockwise" -> "Counterclockwise"
      [] amplitude = "Counterclockwise" -> "Clockwise"
      [] OTHER -> amplitude

inverse_move(n) == move_index(all_moves[n].kind, inverse_amplitude(all_moves[n].amplitude))

\* C3: for a solved cube to which one move was applied, a solver returns one
\* move exactly, the inverse of that move.
C3_OneMoveIsUndone ==
    (Solved /\ Len(moves_done) = 1) => outcome.path = <<inverse_move(moves_done[1])>>

\* the parallel solver has undone a turn of a centre slice
C3_Witness ==
    /\ mode = "solved_parallel"
    /\ moves_done = <<move_index("Middle", "Clockwise")>>
    /\ outcome.path = <<move_index("Middle", "Counterclockwise")>>

\* C4: for a cube that is solved, a solver returns no move and has expanded
\* no cube.
C4_SolvedNeedsNothing ==
    (Solved /\ is_solved(current_cube))
    => /\ outcome.path = <<>>
       /\ outcome.nb_cube_expanded = 0
       /\ ~outcome.panicked

\* the sequential solver has returned for a cube that two moves left solved
C4_Witness ==
    /\ mode = "solved_sequential"
    /\ Len(moves_done) = 2
    /\ is_solved(current_cube)
    /\ outcome.path = <<>>
    /\ outcome.nb_cube_expanded = 0

(***************************************************************************)
(* The permutation coding on its own: a partial permutation of             *)
(* PERMUTATION_SIZE distinct values, or a full one, of 0 .. NB_ELEMENTS - 1*)
(* is coded and the code decoded; a decimal in range is decoded and the    *)
(* permutation coded.                                                      *)
(***************************************************************************)
permutations_of(NB_ELEMENTS, PERMUTATION_SIZE) ==
    {permutation \in [0 .. (PERMUTATION_SIZE - 1) -> 0 .. (NB_ELEMENTS - 1)] :
        \A i, j \in 0 .. (PERMUTATION_SIZE - 1) : permutation[i] = permutation[j] => i = j}

CodePartial(NB_ELEMENTS, PERMUTATION_SIZE, permutation) ==
    /\ mode = "permuting"
    /\ mode' = "coded"
    /\ outcome' = [NB_ELEMENTS |-> NB_ELEMENTS, PERMUTATION_SIZE |-> PERMUTATION_SIZE,
                   permutation |-> permutation,
                   decimal |-> decimal_from_partial_permutation(
                                   permutation, NB_ELEMENTS, PERMUTATION_SIZE),
                   back |-> partial_permutation_from_decimal(
                                decimal_from_partial_permutation(
                                    permutation, NB_ELEMENTS, PERMUTATION_SIZE),
                                NB_ELEMENTS, PERMUTATION_SIZE)]
    /\ UNCHANGED <<start_cube, current_cube, moves_done, start_square, current_square, pdb>>

DecodePartial(NB_ELEMENTS, PERMUTATION_SIZE, decimal) ==
    /\ mode = "permuting"
    /\ mode' = "decoded"
    /\ outcome' = [NB_ELEMENTS |-> NB_ELEMENTS, PERMUTATION_SIZE |-> PERMUTATION_SIZE,
                   decimal |-> decimal,
                   permutation |-> partial_permutation_from_decimal(
                                       decimal, NB_ELEMENTS, PERMUTATION_SIZE),
                   back |-> decimal_from_partial_permutation(
                                partial_permutation_from_decimal(
                                    decimal, NB_ELEMENTS, PERMUTATION_SIZE),
                                NB_ELEMENTS, PERMUTATION_SIZE)]
    /\ UNCHANGED <<start_cube, current_cube, moves_done, start_square, current_square, pdb>>

CodeFull(NB_ELEMENTS, permutation) ==
    /\ mode = "permuting"
    /\ mode' = "coded_full"
    /\ outcome' = [NB_ELEMENTS |-> NB_ELEMENTS, PERMUTATION_SIZE |-> NB_ELEMENTS,
                   permutation |-> permutation,
                   decimal |-> decimal_from_permutation(permutation, NB_ELEMENTS),
                   back |-> permutation_from_decimal(
                                decimal_from_permutation(permutation, NB_ELEMENTS),
                                NB_ELEMENTS)]
    /\ UNCHANGED <<start_cube, current_cube, moves_done, start_square, current_square, pdb>>

DecodeFull(NB_ELEMENTS, decimal) ==
    /\ mode = "permuting"
    /\ mode' = "decoded_full"
    /\ outcome' = [NB_ELEMENTS |-> NB_ELEMENTS, PERMUTATION_SIZE |-> NB_ELEMENTS,
                   decimal |-> decimal,
                   permutation |-> permutation_from_decimal(decimal, NB_ELEMENTS),
                   back |-> decimal_from_permutation(
                                permutation_from_decimal(decimal, NB_ELEMENTS),
                                NB_ELEMENTS)]
    /\ UNCHANGED <<start_cube, current_cube, moves_done, start_square, current_square, pdb>>

NextPermutation ==
    \E NB_ELEMENTS \in 1 .. MaxElements :
        \/ \E PERMUTATION_SIZE \in 0 .. NB_ELEMENTS :
               \/ \E permutation \in permutations_of(NB_ELEMENTS, PERMUTATION_SIZE) :
                      CodePartial(NB_ELEMENTS, PERMUTATION_SIZE, permutation)
               \/ \E decimal \in 0 .. (nb_partial_permutations(PERMUTATION_SIZE, NB_ELEMENTS) - 1) :
                      DecodePartial(NB_ELEMENTS, PERMUTATION_SIZE, decimal)
        \/ \E permutation \in permutations_of(NB_ELEMENTS, NB_ELEMENTS) :
               CodeFull(NB_ELEMENTS, permutation)
        \/ \E decimal \in 0 .. (nb_permutations(NB_ELEMENTS) - 1) :
               DecodeFull(NB_ELEMENTS, decimal)

SpecPermutation == InitAt("permuting") /\ [][NextPermutation]_vars

\* C14: coding a permutation (partial or full) gives a decimal below the
\* number of such permutations, and decoding it gives the permutation back;
\* decoding a decimal below that number gives an array of distinct values of
\* 0 .. NB_ELEMENTS - 1, and coding it gives the decimal back.
C14_PermutationCodingIsBijective ==
    /\ mode \in {"coded", "coded_full"}
       => /\ outcome.decimal \in
                 0 .. (nb_partial_permutations(outcome.PERMUTATION_SIZE,
                                               outcome.NB_ELEMENTS) - 1)
          /\ outcome.back = outcome.permutation
    /\ mode \in {"decoded", "decoded_full"}
       => /\ outcome.permutation \in
                 permutations_of(outcome.NB_ELEMENTS, outcome.PERMUTATION_SIZE)
          /\ outcome.back = outcome.decimal

\* the last decimal of the partial permutations of 2 among 4 was decoded, and
\* a full permutation that is not the identity was coded
C14_Witness ==
    \/ /\ mode = "decoded"
       /\ outcome.NB_ELEMENTS = 4
       /\ outcome.PERMUTATION_SIZE = 2
       /\ outcome.decimal = 11
       /\ outcome.back = 11
    \/ /\ mode = "coded_full"
       /\ outcome.NB_ELEMENTS = 3
       /\ outcome.permutation = [j \in 0 .. 2 |-> 2 - j]
       /\ outcome.back = outcome.permutation

(***************************************************************************)
(* The decoders of the encoders, and the encoders run on their output.     *)
(***************************************************************************)
index_of_middle_orientation(middle_index, orientation_index) ==
    middle_index * NB_MIDDLE_ORIENTATIONS + orientation_index

\* the table of the pair of colours of a middle index and an orientation index
color_pair_of_middle_and_orientation_table ==
    [index \in 0 .. (NB_MIDDLES * NB_MIDDLE_ORIENTATIONS - 1) |->
        IF index % NB_MIDDLE_ORIENTATIONS = 0
        THEN middle_pairs[(index \div NB_MIDDLE_ORIENTATIONS) + 1]
        ELSE <<middle_pairs[(index \div NB_MIDDLE_ORIENTATIONS) + 1][2],
               middle_pairs[(index \div NB_MIDDLE_ORIENTATIONS) + 1][1]>>]

\* what a decoder gives in place of the squares of a cube when it reads an
\* array out of its bounds: no cube is returned
Panic == <<>>

\* the loop of decode over the middle indexes, from the last one to the first
RECURSIVE middle_decode_loop(_, _, _, _, _)
middle_decode_loop(USE_LOWER_MIDDLES, permutation, middle_index, total_orientation_index, squares) ==
    LET rebuilt(pair, indexes) ==
            middle_decode_loop(USE_LOWER_MIDDLES, permutation, middle_index - 1,
                total_orientation_index \div NB_MIDDLE_ORIENTATIONS,
                [squares EXCEPT ![indexes[1]] = pair[1], ![indexes[2]] = pair[2]])
        colored(triplet_index) ==
            IF \/ triplet_index \notin DOMAIN color_pair_of_middle_and_orientation_table
               \/ permutation[middle_index] + 1 \notin DOMAIN compute_middles_1D_indexes
            THEN Panic
            ELSE rebuilt(color_pair_of_middle_and_orientation_table[triplet_index],
                         compute_middles_1D_indexes[permutation[middle_index] + 1])
    IN  IF middle_index < 0 THEN squares
        ELSE colored(index_of_middle_orientation(
                         shift_middle_index(USE_LOWER_MIDDLES, middle_index),
                         total_orientation_index % NB_MIDDLE_ORIENTATIONS))

MiddleEncoder_decode(USE_LOWER_MIDDLES, middles_code) ==
    middle_decode_loop(USE_LOWER_MIDDLES,
        partial_permutation_from_decimal(
            middles_code % nb_partial_permutations(NB_MIDDLES_KEPT, NB_MIDDLES),
            NB_MIDDLES, NB_MIDDLES_KEPT),
        NB_MIDDLES_KEPT - 1,
        middles_code \div nb_partial_permutations(NB_MIDDLES_KEPT, NB_MIDDLES),
        [j \in Squares |-> Invalid])

index_of_corner_orientation(corner_index, orientation_index, is_top) ==
    corner_index
    + (orientation_index + IF is_top THEN NB_CORNER_ORIENTATIONS ELSE 0) * NB_CORNERS

\* the order in which the colours of a corner are written for each orientation
\* index, with NB_CORNER_ORIENTATIONS added to it for a corner of the top
triplet_orders ==
    << <<1, 3, 2>>, <<2, 3, 1>>, <<3, 1, 2>>, <<1, 2, 3>>, <<2, 1, 3>>, <<3, 2, 1>> >>

color_triplet_of_corner_and_orientation_table ==
    [index \in 0 .. (2 * NB_CORNER_ORIENTATIONS * NB_CORNERS - 1) |->
        [k \in 1 .. 3 |->
            corner_triplets[(index % NB_CORNERS) + 1][
                triplet_orders[(index \div NB_CORNERS) + 1][k]]]]

corners_is_top == [n \in 1 .. NB_CORNERS |-> corner_coordinates[n][2] > 1]

\* the loop of cube_of_corner_code over the corners, from the last to the first
RECURSIVE corner_decode_loop(_, _, _, _)
corner_decode_loop(permutation, n, total_orientation_index, squares) ==
    LET rebuilt(triplet, indexes) ==
            corner_decode_loop(permutation, n - 1,
                total_orientation_index \div NB_CORNER_ORIENTATIONS,
                [squares EXCEPT ![indexes[1]] = triplet[1], ![indexes[2]] = triplet[2],
                                ![indexes[3]] = triplet[3]])
        colored(triplet_index) ==
            IF triplet_index \notin DOMAIN color_triplet_of_corner_and_orientation_table
            THEN Panic
            ELSE rebuilt(color_triplet_of_corner_and_orientation_table[triplet_index],
                         compute_corners_1D_indexes[n])
    IN  IF n < 1 THEN squares
        ELSE colored(index_of_corner_orientation(
                         permutation[n - 1],
                         total_orientation_index % NB_CORNER_ORIENTATIONS,
                         corners_is_top[n]))

cube_of_corner_code(corners_code) ==
    corner_decode_loop(
        permutation_from_decimal(corners_code % nb_permutations(NB_CORNERS), NB_CORNERS),
        NB_CORNERS,
        corners_code \div nb_permutations(NB_CORNERS),
        [j \in Squares |-> Invalid])

Encoder_decode(encoder, index) ==
    IF encoder = "corners" THEN cube_of_corner_code(index)
    ELSE MiddleEncoder_decode(encoder = "lower_middles", index)

(***************************************************************************)
(* The encoders at work: a cube is turned a few times and encoded, or an   *)
(* index is decoded and the cube obtained is encoded.                      *)
(***************************************************************************)
\* the clockwise move of each kind
CodedMoves == {n \in Moves : all_moves[n].amplitude = "Clockwise"}

\* the indexes that are decoded: low and high permutation indexes with low
\* orientation indexes, the last indexes, and indexes past the last one
CodeSamples(encoder) ==
    LET samples(max_permutation_index, nb_indexes) ==
            {p + o * max_permutation_index :
                 p \in {0, 1, max_permutation_index - 1}, o \in 0 .. MaxOrientationIndex}
            \cup {nb_indexes - 1, nb_indexes - 2}
            \cup {nb_indexes + p + o * max_permutation_index : p \in {0, 1}, o \in {0, 1}}
    IN  samples(IF encoder = "corners" THEN nb_permutations(NB_CORNERS)
                ELSE nb_partial_permutations(NB_MIDDLES_KEPT, NB_MIDDLES),
                Encoder_nb_indexes(encoder))

Mix(n) ==
    /\ mode = "coding"
    /\ Len(moves_done) < MaxCoded
    /\ current_cube' = apply_move(current_cube, n)
    /\ moves_done' = Append(moves_done, n)
    /\ UNCHANGED <<mode, start_cube, start_square, current_square, outcome, pdb>>

Encode(encoder) ==
    /\ mode = "coding"
    /\ mode' = "encoded"
    /\ outcome' = [encoder |-> encoder, index |-> Encoder_encode(encoder, current_cube)]
    /\ UNCHANGED <<start_cube, current_cube, moves_done, start_square, current_square, pdb>>

Decode(encoder, index) ==
    LET decoded(cube) ==
            [encoder |-> encoder, index |-> index, cube |-> cube,
             code |-> IF cube = Panic THEN Panic ELSE Encoder_encode(encoder, cube)]
    IN  /\ mode = "coding"
        /\ moves_done = <<>>
        /\ mode' = "decoded"
        /\ outcome' = decoded(Encoder_decode(encoder, index))
        /\ UNCHANGED <<start_cube, current_cube, moves_done, start_square,
                       current_square, pdb>>

\* the cube is encoded and its index decoded
Recode(encoder) ==
    /\ mode = "coding"
    /\ mode' = "recoded"
    /\ outcome' = [encoder |-> encoder, index |-> Encoder_encode(encoder, current_cube),
                   cube |-> Encoder_decode(encoder, Encoder_encode(encoder, current_cube))]
    /\ UNCHANGED <<start_cube, current_cube, moves_done, start_square, current_square, pdb>>

NextCodec ==
    \/ \E n \in CodedMoves : Mix(n)
    \/ \E encoder \in Encoders :
           \/ Encode(encoder)
           \/ \E index \in CodeSamples(encoder) : Decode(encoder, index)
           \/ Recode(encoder)

SpecCodec == InitAt("coding") /\ [][NextCodec]_vars

\* C11: for each encoder and each index below its number of indexes, the
\* cube decoded from the index is encoded into the same index.
C11_DecodeThenEncode ==
    (mode = "decoded" /\ outcome.index < Encoder_nb_indexes(outcome.encoder))
        => outcome.code = outcome.index

\* C12: the corner encoder has 8! * 3^7 indexes, and the index of every cube
\* reached from the solved cube is below 8! * 3^7.
C12_CornerIndexesKeepSevenDigits ==
    (mode = "encoded" /\ outcome.encoder = "corners")
        => /\ CornerEncoder_nb_indexes = nb_permutations(NB_CORNERS) * power(3, 7)
           /\ outcome.index < nb_permutations(NB_CORNERS) * power(3, 7)

\* the positions (1 .. NB_MIDDLES) of the cube that hold one of the six
\* middles of the half, told from the colours alone
retained_positions(USE_LOWER_MIDDLES, cube) ==
    {n \in 1 .. NB_MIDDLES :
        \E k \in 1 .. NB_MIDDLES :
            /\ {cube[compute_middles_1D_indexes[n][1]], cube[compute_middles_1D_indexes[n][2]]}
               = {middle_pairs[k][1], middle_pairs[k][2]}
            /\ IF USE_LOWER_MIDDLES THEN k <= NB_MIDDLES_KEPT ELSE k > NB_MIDDLES_KEPT}

\* what encode has read of the cube: the position of each kept middle
read_permutation(USE_LOWER_MIDDLES, cube) ==
    middle_loop(USE_LOWER_MIDDLES, cube, 1,
                [i \in 0 .. (NB_MIDDLES_KEPT - 1) |-> 0], 0).permutation

\* C13: on every cube reached from the solved cube and for both halves, the
\* middle encoder finds six kept middles at six distinct positions of
\* 0 .. 11, and the index is in 0 .. 12*11*10*9*8*7 * 2^6 - 1, the number of
\* indexes of the encoder.
C13_SixMiddlesAreFound ==
    (mode = "encoded" /\ outcome.encoder # "corners")
        => /\ Cardinality(retained_positions(outcome.encoder = "lower_middles",
                                             current_cube)) = 6
           /\ {read_permutation(outcome.encoder = "lower_middles", current_cube)[i] + 1 :
                   i \in 0 .. 5}
              = retained_positions(outcome.encoder = "lower_middles", current_cube)
           /\ outcome.index \in 0 .. (12 * 11 * 10 * 9 * 8 * 7 * 64 - 1)
           /\ MiddleEncoder_nb_indexes = 12 * 11 * 10 * 9 * 8 * 7 * 64

\* the upper half and the lower half were encoded on a cube two moves from
\* the solved cube, whose kept middles are not where the solved cube has them
C13_Witness ==
    /\ mode = "encoded"
    /\ outcome.encoder # "corners"
    /\ Len(moves_done) = 2
    /\ retained_positions(outcome.encoder = "lower_middles", current_cube)
       # retained_positions(outcome.encoder = "lower_middles", Cube_solved)
    /\ outcome.index >= nb_partial_permutations(NB_MIDDLES_KEPT, NB_MIDDLES)

\* the squares an encoder is about: those of the eight corners, or those of
\* the positions that hold the six middles of the half
target_squares(encoder, cube) ==
    IF encoder = "corners"
    THEN {compute_corners_1D_indexes[n][k] : n \in 1 .. NB_CORNERS, k \in 1 .. 3}
    ELSE {compute_middles_1D_indexes[n][k] :
              n \in retained_positions(encoder = "lower_middles", cube), k \in 1 .. 2}

\* the cube with Invalid on every square but the given ones
partial_cube(cube, squares) ==
    [j \in Squares |-> IF j \in squares THEN cube[j] ELSE Invalid]

\* C23: a cube and the cube that has the same colours on the squares of the
\* cubies of the encoder and Invalid on every other square have the same
\* index, and so have the cube and the cube after a move that changes none of
\* these squares.
C23_OnlyTargetSquaresAreRead ==
    mode = "encoded"
    => LET squares == target_squares(outcome.encoder, current_cube)
       IN  /\ Encoder_encode(outcome.encoder, partial_cube(current_cube, squares))
              = outcome.index
           /\ \A n \in Moves :
                  (\A j \in squares : apply_move(current_cube, n)[j] = current_cube[j])
                  => Encoder_encode(outcome.encoder, apply_move(current_cube, n))
                     = outcome.index

\* a half of the middles was encoded on a cube two moves from the solved
\* cube, that a move changes without changing the squares of the six middles
C23_Witness ==
    /\ mode = "encoded"
    /\ outcome.encoder = "upper_middles"
    /\ Len(moves_done) = 2
    /\ partial_cube(current_cube, target_squares(outcome.encoder, current_cube))
       # current_cube
    /\ \E n \in Moves :
           /\ apply_move(current_cube, n) # current_cube
           /\ \A j \in target_squares(outcome.encoder, current_cube) :
                  apply_move(current_cube, n)[j] = current_cube[j]
    /\ Encoder_encode(outcome.encoder,
                      partial_cube(current_cube,
                                   target_squares(outcome.encoder, current_cube)))
       = outcome.index

\* C22: the cube decoded from the corner index of a cube has, on each of the
\* 24 squares of the corners, the colour the cube has.
C22_DecodedCornersAreTheCorners ==
    (mode = "recoded" /\ outcome.encoder = "corners")
        => \A n \in 1 .. NB_CORNERS : \A k \in 1 .. 3 :
               outcome.cube[compute_corners_1D_indexes[n][k]]
               = current_cube[compute_corners_1D_indexes[n][k]]

\* C17: a decoder given an index that is not below the number of indexes of
\* its encoder panics, and returns no cube.
C17_OutOfRangeIndexPanics ==
    (mode = "decoded" /\ outcome.index >= Encoder_nb_indexes(outcome.encoder))
        => outcome.cube = Panic

(***************************************************************************)
(* OptionU8: a byte whose largest value stands for None.                   *)
(***************************************************************************)
NONE_VALUE == 255

OptionU8_none == NONE_VALUE

\* a set that stores the value whatever the content is
OptionU8_overwrite(content, value) == [content |-> value, returned |-> TRUE]

\* the content after set(value), and what the call returns
OptionU8_set(content, value) ==
    IF content = NONE_VALUE
    THEN [content |-> value, returned |-> TRUE]
    ELSE [content |-> content, returned |-> FALSE]

\* the values given to set: bytes other than NONE_VALUE
SetValues == {0, 1, 2, 3, NONE_VALUE - 1}

New ==
    /\ mode = "setting"
    /\ mode' = "set"
    /\ outcome' = [content |-> OptionU8_none, values |-> <<>>, returned |-> <<>>]
    /\ UNCHANGED <<start_cube, current_cube, moves_done, start_square, current_square, pdb>>

Set(value) ==
    /\ mode = "set"
    /\ Len(outcome.values) < MaxSets
    /\ outcome' = [content |-> OptionU8_set(outcome.content, value).content,
                   values |-> Append(outcome.values, value),
                   returned |-> Append(outcome.returned,
                                       OptionU8_set(outcome.content, value).returned)]
    /\ UNCHANGED <<mode, start_cube, current_cube, moves_done, start_square,
                   current_square, pdb>>

NextOption == New \/ \E value \in SetValues : Set(value)

SpecOption == InitAt("setting") /\ [][NextOption]_vars

\* C15: a call of set with a value other than 0xFF returns true and stores
\* the value exactly when the content was 0xFF before it, and otherwise
\* returns false and leaves the content as it was; so the content is the
\* first value set and exactly the first call returns true.
C15_FirstSetWins ==
    /\ mode = "set"
       => /\ Len(outcome.values) = 0 => outcome.content = NONE_VALUE
          /\ Len(outcome.values) > 0 => outcome.content = outcome.values[1]
          /\ \A k \in 1 .. Len(outcome.returned) : outcome.returned[k] = (k = 1)
    /\ \A content \in SetValues \cup {NONE_VALUE} : \A value \in SetValues :
           /\ OptionU8_set(content, value).returned = (content = NONE_VALUE)
           /\ OptionU8_set(content, value).content
              = IF content = NONE_VALUE THEN value ELSE content

\* three values were set, the second and the third differing from the first
C15_Witness ==
    /\ mode = "set"
    /\ Len(outcome.values) = 3
    /\ outcome.values[2] # outcome.values[1]
    /\ outcome.values[3] # outcome.values[1]
    /\ outcome.content = outcome.values[1]

(***************************************************************************)
(* The parallel fill (TableHeuristic::new_parallel).  Each worker takes a  *)
(* solved cube and runs iterative_deepening_parallel on it; a step of a    *)
(* worker is one load or one store of an atomic, with the code that        *)
(* follows it up to the next one.  The loads are relaxed: a worker that    *)
(* has not yet seen the value stored in an entry during the current depth  *)
(* may still read the value the entry had when the depth began.            *)
(***************************************************************************)
Workers == 1 .. NbWorkers

\* the solved cubes the workers start from: the solved cube, and the solved
\* cube rotated along the front-back axis
FillRoots == <<Cube_solved, Cube_rotate(Cube_solved, 3)>>

\* the moves of the fill: three moves that bring the two solved cubes to
\* cubes of the same index, for each encoder
FillMoves ==
    <<move_index("Front", "Clockwise"), move_index("Back", "Counterclockwise"),
      move_index("Side", "Clockwise")>>

\* a test that lets a cube through once only
load_passes_once(loaded, depth_left) == loaded < 0

\* a test that lets every cube through
load_passes_always(loaded, depth_left) == TRUE

\* the test made on the value loaded from depth_cubes
load_passes(loaded, depth_left) == loaded < depth_left

\* the cube of the call a worker is in: its solved cube after the moves of
\* its path, a path being the positions in FillMoves of the moves made
node_cube(worker) ==
    apply_path(FillRoots[worker.root],
               [k \in 1 .. Len(worker.path) |-> FillMoves[worker.path[k]]])

node_index(encoder, worker) == Encoder_encode(encoder, node_cube(worker))

\* the path of the next call once the call of this path has returned, or
\* <<0>> when the call that returned is the one made on the solved cube
RECURSIVE next_path(_)
next_path(path) ==
    IF path = <<>> THEN <<0>>
    ELSE IF path[Len(path)] < Len(FillMoves)
         THEN [path EXCEPT ![Len(path)] = @ + 1]
         ELSE next_path(SubSeq(path, 1, Len(path) - 1))

\* the fill once the current call of worker w has returned: the worker enters
\* the next call, or adds its count to nb_new_cubes and is idle again
call_returned(fill, w) ==
    LET moved(path) ==
            IF path = <<0>>
            THEN [fill EXCEPT !.nb_new_cubes = @ + fill.workers[w].nb_new_cubes_thread,
                              !.workers[w].pc = "idle",
                              !.workers[w].root = 0,
                              !.workers[w].path = <<>>,
                              !.workers[w].nb_new_cubes_thread = 0]
            ELSE [fill EXCEPT !.workers[w].pc = "load", !.workers[w].path = path]
    IN  moved(next_path(fill.workers[w].path))

\* the value a load gives: the last one stored, or the one of the beginning
\* of the depth
loaded_value(array, before, index, stale, default) ==
    IF stale THEN array_get(before, index, default) ELSE array_get(array, index, default)

\* a worker may read the old value of an entry it has not seen the new one of
may_be_stale(array, before, index, seen) ==
    /\ index \notin seen
    /\ array_get(array, index, -2) # array_get(before, index, -2)

NewParallel(encoder) ==
    /\ mode = "filling"
    /\ mode' = "filling_parallel"
    /\ pdb' = [encoder |-> encoder, depth |-> 0,
               depth_cubes |-> empty_array, table |-> empty_array,
               depth_cubes_before |-> empty_array, table_before |-> empty_array,
               stored |-> empty_array,
               nb_new_cubes |-> 0, current_table_size |-> 0, next_root |-> 1,
               workers |-> [w \in Workers |->
                               [pc |-> "idle", root |-> 0, path |-> <<>>,
                                nb_new_cubes_thread |-> 0, seen |-> {}, seen_table |-> {}]]]
    /\ UNCHANGED <<start_cube, current_cube, moves_done, start_square, current_square,
                   outcome>>

TakeRoot(w) ==
    /\ mode = "filling_parallel"
    /\ pdb.workers[w].pc = "idle"
    /\ pdb.next_root <= Len(FillRoots)
    /\ pdb' = [pdb EXCEPT !.next_root = @ + 1,
                          !.workers[w].pc = "load",
                          !.workers[w].root = pdb.next_root]
    /\ UNCHANGED <<mode, start_cube, current_cube, moves_done, start_square,
                   current_square, outcome>>

Load(w, stale) ==
    LET passed(index, depth_left, seen) ==
            IF load_passes(loaded_value(pdb.depth_cubes, pdb.depth_cubes_before,
                                        index, stale, -1),
                           depth_left)
            THEN [pdb EXCEPT !.workers[w].pc = "store", !.workers[w].seen = seen]
            ELSE call_returned([pdb EXCEPT !.workers[w].seen = seen], w)
        read(index) ==
            /\ stale => may_be_stale(pdb.depth_cubes, pdb.depth_cubes_before, index,
                                     pdb.workers[w].seen)
            /\ pdb' = passed(index, pdb.depth - Len(pdb.workers[w].path),
                             IF stale \/ index \notin DOMAIN pdb.stored
                             THEN pdb.workers[w].seen
                             ELSE pdb.workers[w].seen \cup {index})
    IN  /\ mode = "filling_parallel"
        /\ pdb.workers[w].pc = "load"
        /\ read(node_index(pdb.encoder, pdb.workers[w]))
        /\ UNCHANGED <<mode, start_cube, current_cube, moves_done, start_square,
                       current_square, outcome>>

Store(w) ==
    LET stored(index, depth_left) ==
            [pdb EXCEPT !.depth_cubes = array_set(@, index, depth_left),
                        !.stored = array_set(@, index,
                                             array_get(@, index, {}) \cup {depth_left}),
                        !.workers[w].seen = @ \cup {index},
                        !.workers[w].pc = IF depth_left = 0 THEN "table_load" ELSE "load",
                        !.workers[w].path = IF depth_left = 0 THEN @ ELSE Append(@, 1)]
    IN  /\ mode = "filling_parallel"
        /\ pdb.workers[w].pc = "store"
        /\ pdb' = stored(node_index(pdb.encoder, pdb.workers[w]),
                         pdb.depth - Len(pdb.workers[w].path))
        /\ UNCHANGED <<mode, start_cube, current_cube, moves_done, start_square,
                       current_square, outcome>>

TableLoad(w, stale) ==
    LET passed(index, seen_table) ==
            IF loaded_value(pdb.table, pdb.table_before, index, stale, NONE_VALUE)
               = NONE_VALUE
            THEN [pdb EXCEPT !.workers[w].pc = "table_store",
                             !.workers[w].seen_table = seen_table]
            ELSE call_returned([pdb EXCEPT !.workers[w].seen_table = seen_table], w)
        read(index) ==
            /\ stale => may_be_stale(pdb.table, pdb.table_before, index,
                                     pdb.workers[w].seen_table)
            /\ pdb' = passed(index,
                             IF stale \/ index \notin DOMAIN pdb.table
                                      \/ index \in DOMAIN pdb.table_before
                             THEN pdb.workers[w].seen_table
                             ELSE pdb.workers[w].seen_table \cup {index})
    IN  /\ mode = "filling_parallel"
        /\ pdb.workers[w].pc = "table_load"
        /\ read(node_index(pdb.encoder, pdb.workers[w]))
        /\ UNCHANGED <<mode, start_cube, current_cube, moves_done, start_square,
                       current_square, outcome>>

TableStore(w) ==
    LET stored(index) ==
            call_returned([pdb EXCEPT !.table = array_set(@, index, Len(pdb.workers[w].path)),
                                 !.workers[w].seen_table = @ \cup {index},
                                 !.workers[w].nb_new_cubes_thread = @ + 1], w)
    IN  /\ mode = "filling_parallel"
        /\ pdb.workers[w].pc = "table_store"
        /\ pdb' = stored(node_index(pdb.encoder, pdb.workers[w]))
        /\ UNCHANGED <<mode, start_cube, current_cube, moves_done, start_square,
                       current_square, outcome>>

\* every solved cube was taken and every worker is back
all_joined ==
    /\ mode = "filling_parallel"
    /\ pdb.next_root > Len(FillRoots)
    /\ \A w \in Workers : pdb.workers[w].pc = "idle"

\* the end of a depth: the fill stops when the count has reached the size of
\* the table and no entry is left at u8::MAX, and goes one depth further
\* otherwise
EndDepth ==
    /\ all_joined
    /\ pdb.depth < LastDepth
    /\ IF /\ pdb.current_table_size >= Encoder_nb_indexes(pdb.encoder)
          /\ Cardinality(DOMAIN pdb.table) = Encoder_nb_indexes(pdb.encoder)
       THEN /\ mode' = "filled"
            /\ pdb' = pdb
       ELSE /\ mode' = mode
            /\ pdb' = [pdb EXCEPT !.current_table_size = @ + pdb.nb_new_cubes,
                                  !.nb_new_cubes = 0,
                                  !.depth = @ + 1,
                                  !.next_root = 1,
                                  !.depth_cubes_before = pdb.depth_cubes,
                                  !.table_before = pdb.table,
                                  !.stored = empty_array,
                                  !.workers = [w \in Workers |->
                                      [pdb.workers[w] EXCEPT !.seen = {},
                                                             !.seen_table = {}]]]
    /\ UNCHANGED <<start_cube, current_cube, moves_done, start_square, current_square,
                   outcome>>

NextParallel ==
    \/ \E encoder \in Encoders : NewParallel(encoder)
    \/ \E w \in Workers :
           \/ TakeRoot(w)
           \/ \E stale \in BOOLEAN : Load(w, stale) \/ TableLoad(w, stale)
           \/ Store(w)
           \/ TableStore(w)
    \/ EndDepth

SpecParallel == InitAt("filling") /\ [][NextParallel]_vars

\* C18: whatever the order of the steps of the workers, when a depth of the
\* parallel fill ends its table is the table of the sequential fill at the
\* end of the same depth.
C18_ParallelTableIsSequentialTable ==
    all_joined => pdb.table = fill_to_depth(pdb.encoder, FillMoves, FillRoots, fill_start,
                                        0, pdb.depth).table

\* the last depth has ended, and two workers have written the same entry of
\* the table: the entries counted are more than the entries written
C18_Witness ==
    /\ all_joined
    /\ pdb.depth = LastDepth
    /\ \E index \in DOMAIN pdb.table : pdb.table[index] = LastDepth
    /\ pdb.current_table_size + pdb.nb_new_cubes > Cardinality(DOMAIN pdb.table)

\* C19: two workers that are both about to store in the same entry of
\* depth_cubes store the same value, and all the stores made in an entry
\* during one depth are of one value.
C19_RacingStoresAreEqual ==
    mode = "filling_parallel"
    => /\ \A v \in Workers : \A w \in Workers :
              (/\ pdb.workers[v].pc = "store"
               /\ pdb.workers[w].pc = "store"
               /\ node_index(pdb.encoder, pdb.workers[v])
                  = node_index(pdb.encoder, pdb.workers[w]))
              => Len(pdb.workers[v].path) = Len(pdb.workers[w].path)
       /\ \A index \in DOMAIN pdb.stored : Cardinality(pdb.stored[index]) = 1

\* two workers on two solved cubes are both about to store in the same entry
C19_Witness ==
    /\ mode = "filling_parallel"
    /\ pdb.depth > 0
    /\ \E v \in Workers : \E w \in Workers :
           /\ v # w
           /\ pdb.workers[v].pc = "store"
           /\ pdb.workers[w].pc = "store"
           /\ pdb.workers[v].root # pdb.workers[w].root
           /\ node_index(pdb.encoder, pdb.workers[v])
              = node_index(pdb.encoder, pdb.workers[w])

\* C26: an entry of the table that holds a distance keeps it: no step of a
\* worker of the parallel fill, in the same depth or a later one, changes it,
\* and no depth of the sequential fill changes an entry an earlier depth wrote.
C26_TableEntriesAreWrittenOnce ==
    [][/\ mode = "filling_parallel"
          => \A index \in DOMAIN pdb.table :
                 /\ index \in DOMAIN pdb'.table
                 /\ pdb'.table[index] = pdb.table[index]
       /\ mode = "filling"
          => \A encoder \in Encoders : \A D \in 1 .. LastDepth :
                 LET before == fill_to_depth(encoder, FillMoves, FillRoots, fill_start,
                                             0, D - 1).table
                     after == fill_to_depth(encoder, FillMoves, FillRoots, fill_start,
                                            0, D).table
                 IN  \A index \in DOMAIN before :
                         index \in DOMAIN after /\ after[index] = before[index]]_vars

\* a worker is about to store in an entry of the table that another worker
\* has written since the depth began
C26_Witness ==
    /\ mode = "filling_parallel"
    /\ pdb.depth > 0
    /\ \E w \in Workers :
           /\ pdb.workers[w].pc = "table_store"
           /\ node_index(pdb.encoder, pdb.workers[w]) \in DOMAIN pdb.table
           /\ node_index(pdb.encoder, pdb.workers[w]) \notin DOMAIN pdb.table_before

\* C27: when a depth of the parallel fill ends, the sum of the counts of the
\* workers is the number of entries of the table written during the depth,
\* and current_table_size is at most the number of entries written.
C27_CountIsEntriesWritten ==
    all_joined
    => /\ pdb.nb_new_cubes
          = Cardinality(DOMAIN pdb.table \ DOMAIN pdb.table_before)
       /\ pdb.current_table_size <= Cardinality(DOMAIN pdb.table)

(***************************************************************************)
(* The round of the parallel solver in which a search succeeds, one step   *)
(* at a time: find_map_any gives the once expanded cubes to the threads,   *)
(* in order here, and gives out no more of them once a search has handed   *)
(* back a path; a search that has begun runs to its end: nothing in        *)
(* solve_iterative_deepening_Astar_rec looks at what the others found.     *)
(***************************************************************************)
Threads == 1 .. NbThreads

\* the state of the round before any search has begun: for each move, the
\* number of cubes its search expands and whether it succeeds
race_start(last) ==
    [searches |-> [n \in Moves |->
                      [nb_cube_expanded |-> (CHOOSE a \in last.round : a[1] = n)[2].nb_cube_expanded,
                       is_sucess |-> (CHOOSE a \in last.round : a[1] = n)[2].is_sucess]],
     next_search |-> 1,
     threads |-> [t \in Threads |-> [search |-> 0, nb_cube_expanded |-> 0]],
     reported |-> FALSE,
     expanded_after_report |-> 0]

BeginRace(n1, n2) ==
    /\ mode = "racing"
    /\ ~is_solved(apply_path(Cube_solved, <<n1, n2>>))
    /\ mode' = "raced"
    /\ current_cube' = apply_path(Cube_solved, <<n1, n2>>)
    /\ moves_done' = <<n1, n2>>
    /\ outcome' = race_start(parallel_loop(apply_path(Cube_solved, <<n1, n2>>),
                                           new_search(<<>>, 1, 0), 0))
    /\ UNCHANGED <<start_cube, start_square, current_square, pdb>>

Take(t) ==
    /\ mode = "raced"
    /\ outcome.threads[t].search = 0
    /\ ~outcome.reported
    /\ outcome.next_search <= NB_MOVES
    /\ outcome' = [outcome EXCEPT !.next_search = @ + 1,
                                  !.threads[t].search = outcome.next_search]
    /\ UNCHANGED <<mode, start_cube, current_cube, moves_done, start_square,
                   current_square, pdb>>

Expand(t) ==
    /\ mode = "raced"
    /\ outcome.threads[t].search # 0
    /\ outcome.threads[t].nb_cube_expanded
       < outcome.searches[outcome.threads[t].search].nb_cube_expanded
    /\ outcome' = [outcome EXCEPT !.threads[t].nb_cube_expanded = @ + 1,
                                  !.expanded_after_report =
                                      IF outcome.reported THEN @ + 1 ELSE @]
    /\ UNCHANGED <<mode, start_cube, current_cube, moves_done, start_square,
                   current_square, pdb>>

Return(t) ==
    /\ mode = "raced"
    /\ outcome.threads[t].search # 0
    /\ outcome.threads[t].nb_cube_expanded
       = outcome.searches[outcome.threads[t].search].nb_cube_expanded
    /\ outcome' = [outcome EXCEPT
                       !.reported = @ \/ outcome.searches[outcome.threads[t].search].is_sucess,
                       !.threads[t] = [search |-> 0, nb_cube_expanded |-> 0]]
    /\ UNCHANGED <<mode, start_cube, current_cube, moves_done, start_square,
                   current_square, pdb>>

NextRace ==
    \/ \E n1 \in MoreMoves : \E n2 \in MoreMoves : BeginRace(n1, n2)
    \/ \E t \in Threads : Take(t) \/ Expand(t) \/ Return(t)

SpecRace == InitAt("racing") /\ [][NextRace]_vars

\* C20: in the parallel solver, once a search has handed back a path no
\* other search expands a cube.
C20_NoExpansionAfterSuccess ==
    mode = "raced" => outcome.expanded_after_report = 0

\* the twist of the corner at position n: 0 when its white or yellow sticker
\* is on the up or down face, 1 or 2 when it is turned one third of a turn one
\* way or the other
corner_twist(cube, n) ==
    LET up_or_down(k) == cube[compute_corners_1D_indexes[n][k]] \in {White, Yellow}
        even == (corner_coordinates[n][1] + corner_coordinates[n][2]
                 + corner_coordinates[n][3]) % 4 = 0
    IN  IF up_or_down(2) THEN 0
        ELSE IF up_or_down(1) THEN (IF even THEN 1 ELSE 2)
        ELSE (IF even THEN 2 ELSE 1)

RECURSIVE twist_sum(_, _)
twist_sum(cube, n) ==
    IF n > NB_CORNERS THEN 0 ELSE corner_twist(cube, n) + twist_sum(cube, n + 1)

\* the twists of the corners of a solved cube, and of a cube reached from it,
\* add up to a multiple of 3, and no move changes what the twists of a decoded
\* cube add up to, modulo 3
TwistsAreKept ==
    /\ mode \in {"coding", "encoded", "walking"}
       => twist_sum(current_cube, 1) % 3 = 0
    /\ mode = "coding"
       => \A k \in 1 .. Len(all_solved_cubes) :
              twist_sum(all_solved_cubes[k], 1) % 3 = 0
    /\ (mode = "decoded" /\ outcome.encoder = "corners")
       => \A n \in Moves :
              twist_sum(apply_move(outcome.cube, n), 1) % 3
              = twist_sum(outcome.cube, 1) % 3

\* C8: the fill of the corner table ends, with every one of its nb_indexes
\* entries filled: every index below nb_indexes is the index of a cube that the
\* fill visits, a cube whose twists add up to a multiple of 3.
C8_EveryCornerIndexIsFilled ==
    (mode = "decoded" /\ outcome.encoder = "corners"
     /\ outcome.index < CornerEncoder_nb_indexes)
        => twist_sum(outcome.cube, 1) % 3 = 0

(***************************************************************************)
(* The rounds of the solvers, one after the other.  A round runs the       *)
(* searches of one target depth: the one search of the start cube for the  *)
(* sequential solver, the 27 searches of the once expanded cubes for the   *)
(* parallel one, taken in order by the threads.  Each search keeps its own *)
(* next_depth, folded into the one of the round when the search returns.   *)
(***************************************************************************)
\* four twists of the centre slices after which every corner and every
\* middle is where a solved cube has it, while the centres are not
centre_scramble ==
    <<move_index("Middle", "Clockwise"), move_index("Side", "Clockwise"),
      move_index("Middle", "Counterclockwise"), move_index("Side", "Counterclockwise")>>

LimitScrambles ==
    {<<n1, n2>> : n1 \in MoreMoves, n2 \in MoreMoves}
    \cup {RUF, SubSeq(centre_scramble, 1, 3)}

\* the cubes, as scrambles, and the solver each is given to; the cube of the
\* four twists of the centre slices is given to the sequential solver
LimitInputs ==
    (LimitScrambles \X {"sequential", "parallel"}) \cup {<<centre_scramble, "sequential">>}

\* the cubes the searches of a round start from
round_cubes(solver, cube) ==
    IF solver = "sequential" THEN <<cube>> ELSE [n \in Moves |-> apply_move(cube, n)]

\* a store of the value in place of the least of the two
fetch_store(next_depth, next_depth_thread) == next_depth_thread

fetch_min(next_depth, next_depth_thread) ==
    IF next_depth_thread < next_depth THEN next_depth_thread ELSE next_depth

\* the path a search of a round is given: the sequential solver begins with
\* an empty path at target depth 0 and pushes dummy moves after each round
\* until the path is one longer than the target depth; each search of the
\* parallel solver pads a path of one move to that length
round_path(solver, target_depth) ==
    IF solver = "sequential" /\ target_depth = 0 THEN <<>> ELSE padded(<<>>, target_depth)

\* the state of a round before any of its searches has begun
round_start(solver, cube, target_depth, rounds, previous_depth) ==
    LET ran(search) == [next_depth |-> search.next_depth, is_sucess |-> search.is_sucess,
                        nb_cube_expanded |-> search.nb_cube_expanded,
                        panicked |-> search.panicked]
        cubes == round_cubes(solver, cube)
    IN  [solver |-> solver,
         target_depth |-> target_depth,
         searches |-> [k \in DOMAIN cubes |->
                          ran(solve_iterative_deepening_Astar_rec(
                                  cubes[k], new_search(round_path(solver, target_depth), 0, 0),
                                  0, target_depth))],
         next_search |-> 1,
         threads |-> [t \in Threads |-> 0],
         next_depth |-> usize_MAX,
         is_solved |-> FALSE,
         rounds |-> rounds,
         previous_depth |-> previous_depth]

BeginRounds(scramble, solver) ==
    /\ mode = "limiting"
    /\ ~is_solved(apply_path(Cube_solved, scramble))
    /\ mode' = "limited"
    /\ current_cube' = apply_path(Cube_solved, scramble)
    /\ moves_done' = scramble
    /\ outcome' = round_start(solver, apply_path(Cube_solved, scramble), 0, 0, 0)
    /\ UNCHANGED <<start_cube, start_square, current_square, pdb>>

TakeSearch(t) ==
    /\ mode = "limited"
    /\ outcome.threads[t] = 0
    /\ ~outcome.is_solved
    /\ outcome.next_search <= Len(outcome.searches)
    /\ outcome' = [outcome EXCEPT !.next_search = @ + 1,
                                  !.threads[t] = outcome.next_search]
    /\ UNCHANGED <<mode, start_cube, current_cube, moves_done, start_square,
                   current_square, pdb>>

ReturnSearch(t) ==
    /\ mode = "limited"
    /\ outcome.threads[t] # 0
    /\ outcome' = [outcome EXCEPT
                       !.next_depth = fetch_min(@, outcome.searches[outcome.threads[t]].next_depth),
                       !.is_solved = @ \/ outcome.searches[outcome.threads[t]].is_sucess,
                       !.threads[t] = 0]
    /\ UNCHANGED <<mode, start_cube, current_cube, moves_done, start_square,
                   current_square, pdb>>

EndRound ==
    /\ mode = "limited"
    /\ ~outcome.is_solved
    /\ outcome.next_search > Len(outcome.searches)
    /\ \A t \in Threads : outcome.threads[t] = 0
    /\ \A k \in DOMAIN outcome.searches : ~outcome.searches[k].panicked
    /\ next_target_depth(outcome.target_depth, outcome.next_depth) <= LastLimit
    /\ outcome' = round_start(outcome.solver, current_cube,
                              next_target_depth(outcome.target_depth, outcome.next_depth),
                              outcome.rounds + 1, outcome.target_depth)
    /\ UNCHANGED <<mode, start_cube, current_cube, moves_done, start_square,
                   current_square, pdb>>

NextLimit ==
    \/ \E input \in LimitInputs : BeginRounds(input[1], input[2])
    \/ \E t \in Threads : TakeSearch(t) \/ ReturnSearch(t)
    \/ EndRound

SpecLimit == InitAt("limiting") /\ [][NextLimit]_vars

\* the costs depth + h of the cubes that a round of the target depth does
\* not expand, for a search that starts at the cube: the cubes whose cost is
\* above the target depth and whose parent, if any, is not
RECURSIVE pruned_costs(_, _, _)
pruned_costs(cube, depth, target_depth) ==
    LET pruned(cost) ==
            IF cost > target_depth THEN {cost}
            ELSE UNION {pruned_costs(apply_move(cube, n), depth + 1, target_depth) :
                            n \in Moves}
    IN  pruned(depth + KorfHeuristic_optimistic_distance_to_solved(cube))

\* the cubes whose cost, and the cost of each cube on the way to them, is at
\* most the target depth, as paths of moves
RECURSIVE paths_within(_, _, _, _)
paths_within(cube, path, depth, target_depth) ==
    IF depth + KorfHeuristic_optimistic_distance_to_solved(cube) > target_depth THEN {}
    ELSE {path} \cup UNION {paths_within(apply_move(cube, n), Append(path, n), depth + 1,
                                         target_depth) : n \in Moves}

RECURSIVE sum_expanded(_, _)
sum_expanded(searches, k) ==
    IF k > Len(searches) THEN 0
    ELSE searches[k].nb_cube_expanded + sum_expanded(searches, k + 1)

least_of(costs) == CHOOSE least \in costs : \A cost \in costs : least <= cost

\* C21: a round that fails expands only the cubes whose cost depth + h is at
\* most its target depth, and the target depth of the round that follows it
\* is the least cost of the cubes it did not expand, over all its searches and
\* whatever the order in which they return, which is above its target depth.
C21_NextLimitIsLeastPrunedCost ==
    (mode = "limited" /\ outcome.rounds > 0 /\ outcome.next_search = 1)
    => LET cubes == round_cubes(outcome.solver, current_cube)
           pruned == UNION {pruned_costs(cubes[k], 0, outcome.previous_depth) :
                                k \in DOMAIN cubes}
           former == round_start(outcome.solver, current_cube, outcome.previous_depth, 0, 0)
       IN  /\ outcome.target_depth = least_of(pruned)
           /\ outcome.target_depth > outcome.previous_depth
           /\ sum_expanded(former.searches, 1)
              = Cardinality(UNION {paths_within(cubes[k], <<k>>, 0, outcome.previous_depth) :
                                       k \in DOMAIN cubes})

\* a round of the parallel solver has failed, with searches that did not
\* all ask for the same next depth, and the next round has begun
C21_Witness ==
    /\ mode = "limited"
    /\ outcome.solver = "parallel"
    /\ outcome.rounds > 0
    /\ outcome.next_search = 1
    /\ outcome.target_depth > outcome.previous_depth
    /\ LET former == round_start(outcome.solver, current_cube, outcome.previous_depth, 0, 0)
       IN  \E j \in DOMAIN former.searches : \E k \in DOMAIN former.searches :
               /\ former.searches[j].next_depth # former.searches[k].next_depth
               /\ former.searches[j].nb_cube_expanded > 0

\* C28: every write path[depth] of the sequential solver is within the path,
\* in every round, the first one (target depth 0, empty path) included, and
\* for every start cube, also one that is not solved and whose heuristic is 0.
C28_PathWritesAreInBounds ==
    (mode = "limited" /\ outcome.solver = "sequential")
    => \A k \in DOMAIN outcome.searches : ~outcome.searches[k].panicked

(***************************************************************************)
(* The breadth-first builders of the tables (CornersHeuristic::new and     *)
(* MiddlesHeuristic::compute_lower_table).  previous_cubes holds the codes *)
(* found at the previous distance; a pass of the loop decodes each of      *)
(* them, encodes its children and puts the new ones in place of the old    *)
(* ones, in the same vector.  The table is kept sparse: an index absent    *)
(* from it holds OptionU8::none().                                         *)
(***************************************************************************)
\* the moves of a builder of the model: half turns of two opposite faces,
\* and for the middles the quarter turn of the slice between them
BuilderMoves(encoder) ==
    IF encoder = "corners"
    THEN SelectSeq(corner_moves,
                   LAMBDA n : n \in {move_index("Front", "Fullturn"),
                                     move_index("Back", "Fullturn")})
    ELSE <<move_index("Front", "Fullturn"), move_index("Back", "Fullturn"),
           move_index("Side", "Clockwise")>>

Builders == {"corners", "lower_middles"}

\* Vec::remove in place of Vec::swap_remove: the elements after the index
\* are shifted
Vec_shift_remove(vec, index) == SubSeq(vec, 1, index) \o SubSeq(vec, index + 2, Len(vec))

\* Vec::swap_remove of the element at a zero-based index: the last element
\* takes its place
Vec_swap_remove(vec, index) ==
    IF index = Len(vec) - 1 THEN SubSeq(vec, 1, Len(vec) - 1)
    ELSE [SubSeq(vec, 1, Len(vec) - 1) EXCEPT ![index + 1] = vec[Len(vec)]]

\* the content of an entry of the table
table_content(table, index) ==
    IF index \in DOMAIN table THEN table[index] ELSE OptionU8_none

\* table[index].set(value) on the sparse table
table_set(table, index, value) ==
    array_set(table, index, OptionU8_set(table_content(table, index), value).content)

\* the codes of the solved cubes, from the one of solved cube k on
RECURSIVE solved_codes(_, _)
solved_codes(encoder, k) ==
    IF k > Len(all_solved_cubes) THEN <<>>
    ELSE <<Encoder_encode(encoder, all_solved_cubes[k])>> \o solved_codes(encoder, k + 1)

\* the first generation of results stored in the table
RECURSIVE first_generation(_, _, _)
first_generation(table, previous_cubes, k) ==
    IF k > Len(previous_cubes) THEN table
    ELSE first_generation(table_set(table, previous_cubes[k], 0), previous_cubes, k + 1)

\* the loop over the children of a cube, from move k of the builder on
RECURSIVE push_children(_, _, _, _)
push_children(builder, cube, moves, k) ==
    LET pushed(code_child) ==
            IF OptionU8_set(table_content(builder.table, code_child),
                            builder.distance_to_solved).returned
            THEN [builder EXCEPT
                      !.table = table_set(@, code_child, builder.distance_to_solved),
                      !.previous_cubes = Append(@, code_child),
                      !.nb_new_cubes = @ + 1]
            ELSE builder
    IN  IF k > Len(moves) THEN builder
        ELSE push_children(pushed(Encoder_encode(builder.encoder, apply_move(cube, moves[k]))),
                           cube, moves, k + 1)

\* the removal of the current cube and the update of the indices
remove_current(builder) ==
    IF builder.nb_new_cubes > 0
    THEN [builder EXCEPT !.previous_cubes = Vec_swap_remove(@, builder.i),
                         !.nb_new_cubes = @ - 1, !.i = @ + 1]
    ELSE [builder EXCEPT !.previous_cubes = Vec_swap_remove(@, builder.i),
                         !.nb_old_cubes = @ - 1]

\* an unwrap without the test of the content
OptionU8_unwrap_unchecked(content) == [panicked |-> FALSE, value |-> content]

\* OptionU8::unwrap: the value, or a panic when the content is NONE_VALUE
OptionU8_unwrap(content) == [panicked |-> content = NONE_VALUE, value |-> content]

\* the least index the table has no entry for
first_none(table) ==
    CHOOSE index \in 0 .. Cardinality(DOMAIN table) :
        /\ index \notin DOMAIN table
        /\ \A lower \in 0 .. (index - 1) : lower \in DOMAIN table

\* table.into_iter().map(|d| d.unwrap()).collect(): the unwrap of the first
\* entry that holds none panics, if there is one among the table_size entries
unwrap_table(table, table_size) ==
    IF first_none(table) < table_size
    THEN [panicked |-> OptionU8_unwrap(table_content(table, first_none(table))).panicked,
          table |-> table]
    ELSE [panicked |-> FALSE, table |-> table]

\* the builder begins: the codes of the solved cubes and their entries
BeginBuilder(encoder) ==
    /\ mode = "building"
    /\ mode' = "frontier"
    /\ pdb' = [encoder |-> encoder,
               table |-> first_generation(empty_array, solved_codes(encoder, 1), 1),
               previous_cubes |-> solved_codes(encoder, 1),
               distance_to_solved |-> 1,
               pc |-> "while", i |-> 0, nb_old_cubes |-> 0, nb_new_cubes |-> 0,
               old_cubes |-> <<>>, expanded |-> <<>>]
    /\ UNCHANGED <<start_cube, current_cube, moves_done, start_square, current_square,
                   outcome>>

\* a pass begins; old_cubes and expanded keep, for the properties, the
\* vector the pass began with and the codes it has decoded so far
BeginPass ==
    /\ mode = "frontier"
    /\ pdb.pc = "while"
    /\ pdb.previous_cubes # <<>>
    /\ pdb' = [pdb EXCEPT !.pc = "cube", !.i = 0,
                          !.nb_old_cubes = Len(pdb.previous_cubes), !.nb_new_cubes = 0,
                          !.old_cubes = pdb.previous_cubes, !.expanded = <<>>]
    /\ UNCHANGED <<mode, start_cube, current_cube, moves_done, start_square,
                   current_square, outcome>>

\* one turn of the inner loop: the current code is decoded, its children
\* are pushed and it is removed
ExpandCode ==
    /\ mode = "frontier"
    /\ pdb.pc = "cube"
    /\ pdb.i < pdb.nb_old_cubes
    /\ pdb' = remove_current(
                  push_children([pdb EXCEPT !.expanded = Append(@, pdb.previous_cubes[pdb.i + 1])],
                                Encoder_decode(pdb.encoder, pdb.previous_cubes[pdb.i + 1]),
                                BuilderMoves(pdb.encoder), 1))
    /\ UNCHANGED <<mode, start_cube, current_cube, moves_done, start_square,
                   current_square, outcome>>

EndPass ==
    /\ mode = "frontier"
    /\ pdb.pc = "cube"
    /\ pdb.i >= pdb.nb_old_cubes
    /\ pdb' = [pdb EXCEPT !.pc = "while", !.distance_to_solved = @ + 1]
    /\ UNCHANGED <<mode, start_cube, current_cube, moves_done, start_square,
                   current_square, outcome>>

\* no new code was found: the options are turned into values
EndBuilder ==
    /\ mode = "frontier"
    /\ pdb.pc = "while"
    /\ pdb.previous_cubes = <<>>
    /\ mode' = "built"
    /\ outcome' = unwrap_table(pdb.table, Encoder_nb_indexes(pdb.encoder))
    /\ UNCHANGED <<start_cube, current_cube, moves_done, start_square, current_square, pdb>>

NextBuilder ==
    \/ \E encoder \in Builders : BeginBuilder(encoder)
    \/ BeginPass
    \/ ExpandCode
    \/ EndPass
    \/ EndBuilder

SpecBuilder == InitAt("building") /\ [][NextBuilder]_vars

\* the number of times a code is in a vector
occurrences(vec, code) == Cardinality({k \in DOMAIN vec : vec[k] = code})

codes_of(vec) == {vec[k] : k \in DOMAIN vec}

\* the codes of the vector that the pass has pushed and kept: those before
\* index i and those after the old ones
new_cubes(builder) ==
    SubSeq(builder.previous_cubes, 1, builder.i)
    \o SubSeq(builder.previous_cubes, builder.nb_old_cubes + 1, Len(builder.previous_cubes))

\* C29: in a pass of the in-place loop, every code the vector held when the
\* pass began is decoded once, either already or still to come between i and
\* nb_old_cubes, no code pushed during the pass is decoded, and the rest of
\* the vector holds, each once, the codes whose entry was set to the
\* distance of the pass; when the pass ends the vector holds those only.
C29_PassExpandsOldCodesOnce ==
    /\ (mode = "frontier" /\ pdb.pc = "cube")
       => /\ pdb.i <= pdb.nb_old_cubes
          /\ Len(pdb.previous_cubes) = pdb.nb_old_cubes + pdb.nb_new_cubes
          /\ \A code \in codes_of(pdb.old_cubes) \cup codes_of(pdb.expanded) :
                 occurrences(pdb.expanded, code)
                 + occurrences(SubSeq(pdb.previous_cubes, pdb.i + 1, pdb.nb_old_cubes), code)
                 = occurrences(pdb.old_cubes, code)
          /\ \A code \in codes_of(new_cubes(pdb)) \cup DOMAIN pdb.table :
                 occurrences(new_cubes(pdb), code)
                 = IF code \in DOMAIN pdb.table /\ pdb.table[code] = pdb.distance_to_solved
                   THEN 1 ELSE 0
    /\ (mode = "frontier" /\ pdb.pc = "while" /\ pdb.distance_to_solved > 1)
       => /\ \A code \in codes_of(pdb.old_cubes) \cup codes_of(pdb.expanded) :
                 occurrences(pdb.expanded, code) = occurrences(pdb.old_cubes, code)
          /\ \A code \in codes_of(pdb.previous_cubes) \cup DOMAIN pdb.table :
                 occurrences(pdb.previous_cubes, code)
                 = IF code \in DOMAIN pdb.table
                      /\ pdb.table[code] = pdb.distance_to_solved - 1
                   THEN 1 ELSE 0

\* a pass has ended that found new codes, with old codes replaced by new
\* ones and old codes removed from the end of the old ones
C29_Witness ==
    /\ mode = "frontier"
    /\ pdb.pc = "while"
    /\ pdb.distance_to_solved > 1
    /\ pdb.previous_cubes # <<>>
    /\ pdb.i > 0
    /\ pdb.i < Len(pdb.old_cubes)

Coordinate3D_of(right_left, top_down, front_back) ==
    [right_left |-> right_left, top_down |-> top_down, front_back |-> front_back]

\* Cube::solved(): the blocks in the order of the loops over rl, td and fb
BlockCube_solved ==
    [k \in 1 .. (NB_SQUARES_SIDE * NB_SQUARES_SIDE * NB_SQUARES_SIDE) |->
        LET rl == (k - 1) \div (NB_SQUARES_SIDE * NB_SQUARES_SIDE)
            td == ((k - 1) \div NB_SQUARES_SIDE) % NB_SQUARES_SIDE
            fb == (k - 1) % NB_SQUARES_SIDE
        IN  [position |-> Coordinate3D_of(rl, td, fb),
             color |-> Coordinate3D_of(<<Red, Invalid, Orange>>[rl + 1],
                                       <<White, Invalid, Blue>>[td + 1],
                                       <<Green, Invalid, Yellow>>[fb + 1])]]

Block_should_move(block, kind) ==
    CASE kind = "Front" -> block.position.front_back = 0
      [] kind = "Side" -> block.position.front_back = 1
      [] kind = "Back" -> block.position.front_back = 2
      [] kind = "Right" -> block.position.right_left = 0
      [] kind = "Middle" -> block.position.right_left = 1
      [] kind = "Left" -> block.position.right_left = 2
      [] kind = "Up" -> block.position.top_down = 0
      [] kind = "Equator" -> block.position.top_down = 1
      [] kind = "Down" -> block.position.top_down = 2

Block_rotate_right_left(block) ==
    [position |-> Coordinate3D_of(block.position.right_left,
                                  NB_SQUARES_SIDE - block.position.front_back,
                                  block.position.top_down),
     color |-> Coordinate3D_of(block.color.right_left, block.color.front_back,
                               block.color.top_down)]

Block_rotate_top_down(block) ==
    [position |-> Coordinate3D_of(block.position.front_back,
                                  block.position.top_down,
                                  NB_SQUARES_SIDE - block.position.right_left),
     color |-> Coordinate3D_of(block.color.front_back, block.color.top_down,
                               block.color.right_left)]

Block_rotate_front_back(block) ==
    [position |-> Coordinate3D_of(NB_SQUARES_SIDE - block.position.top_down,
                                  block.position.right_left,
                                  block.position.front_back),
     color |-> Coordinate3D_of(block.color.top_down, block.color.right_left,
                               block.color.front_back)]

Block_rotate(block, kind) ==
    CASE kind \in {"Front", "Side", "Back"} -> Block_rotate_front_back(block)
      [] kind \in {"Right", "Middle", "Left"} -> Block_rotate_right_left(block)
      [] kind \in {"Up", "Equator", "Down"} -> Block_rotate_top_down(block)

RECURSIVE Block_rotations(_, _, _)
Block_rotations(block, kind, nb) ==
    IF nb = 0 THEN block ELSE Block_rotations(Block_rotate(block, kind), kind, nb - 1)

Block_apply_move(block, n) ==
    IF Block_should_move(block, all_moves[n].kind)
    THEN Block_rotations(block, all_moves[n].kind, nb_rotations(all_moves[n].amplitude))
    ELSE block

\* the derived order of Coordinate3D: right_left, then top_down, then
\* front_back
position_is_before(p, q) ==
    \/ p.right_left < q.right_left
    \/ p.right_left = q.right_left /\ p.top_down < q.top_down
    \/ p.right_left = q.right_left /\ p.top_down = q.top_down /\ p.front_back < q.front_back

\* sort_unstable_by_key(|block| block.position); blocks of one position
\* would be left in any order
RECURSIVE sort_by_position(_)
sort_by_position(blocks) ==
    LET first_of(k) == <<blocks[k]>> \o sort_by_position(Vec_remove(blocks, k - 1))
    IN  IF blocks = <<>> THEN <<>>
        ELSE first_of(CHOOSE k \in DOMAIN blocks :
                          \A j \in DOMAIN blocks :
                              ~position_is_before(blocks[j].position, blocks[k].position))

BlockCube_apply_move(blocks, n) ==
    sort_by_position([k \in DOMAIN blocks |-> Block_apply_move(blocks[k], n)])

\* Cube::get: the colours of the first block at the position, or a panic
BlockCube_get(blocks, right_left, top_down, front_back) ==
    LET found == {k \in DOMAIN blocks :
                      blocks[k].position = Coordinate3D_of(right_left, top_down, front_back)}
    IN  IF found = {} THEN [panicked |-> TRUE, color |-> Coordinate3D_of(Invalid, Invalid, Invalid)]
        ELSE [panicked |-> FALSE,
              color |-> blocks[CHOOSE k \in found : \A j \in found : k <= j].color]

SolvedBlocks ==
    /\ mode = "blocks"
    /\ mode' = "twisting"
    /\ pdb' = BlockCube_solved
    /\ UNCHANGED <<start_cube, current_cube, moves_done, start_square, current_square,
                   outcome>>

TwistBlocks(n) ==
    /\ mode = "twisting"
    /\ Len(moves_done) < MaxBlockTwists
    /\ pdb' = BlockCube_apply_move(pdb, n)
    /\ moves_done' = Append(moves_done, n)
    /\ UNCHANGED <<mode, start_cube, current_cube, start_square, current_square, outcome>>

NextBlocks ==
    \/ SolvedBlocks
    \/ \E n \in Moves : TwistBlocks(n)

SpecBlocks == InitAt("blocks") /\ [][NextBlocks]_vars

\* C30: after any moves from the solved cube of blocks the three coordinates
\* of every block are 0, 1 or 2, no two blocks have the same position, get
\* finds a block at each of the 27 positions of the grid, and the blocks that
\* a move of each kind rotates are 9.
C30_BlocksStayOnTheGrid ==
    mode = "twisting"
    => /\ \A k \in DOMAIN pdb :
              /\ pdb[k].position.right_left \in 0 .. (NB_SQUARES_SIDE - 1)
              /\ pdb[k].position.top_down \in 0 .. (NB_SQUARES_SIDE - 1)
              /\ pdb[k].position.front_back \in 0 .. (NB_SQUARES_SIDE - 1)
       /\ \A j \in DOMAIN pdb : \A k \in DOMAIN pdb :
              j # k => pdb[j].position # pdb[k].position
       /\ \A rl \in 0 .. (NB_SQUARES_SIDE - 1) : \A td \in 0 .. (NB_SQUARES_SIDE - 1) :
              \A fb \in 0 .. (NB_SQUARES_SIDE - 1) : ~BlockCube_get(pdb, rl, td, fb).panicked
       /\ \A n \in Moves :
              Cardinality({k \in DOMAIN pdb : Block_should_move(pdb[k], all_moves[n].kind)})
              = NB_SQUARES_SIDE * NB_SQUARES_SIDE

====
